---- MODULE Spec2Model ----
(***************************************************************************)
(* Model of libavcodec/nvenc.c: the growable ring queue (NvencDataList),   *)
(* the surface pool and the frame submission / packet retrieval engine     *)
(* (nvenc_encode_frame, process_output_surface).                           *)
(*                                                                         *)
(* The accelerator is external: what it returns (NVENCSTATUS of each API   *)
(* call, the outputTimeStamp of a locked bitstream) and whether av_malloc  *)
(* succeeds are inputs of the actions, drawn with \E.                      *)
(***************************************************************************)
EXTENDS Integers, Sequences, FiniteSets, TLC

(***************************************************************************)
(* Bounds of the model.                                                    *)
(***************************************************************************)
\* the client of the stand-alone queue enqueues the serial numbers 1..MaxVal,
\* then 1 again: more than the queue ever holds, so the live values differ
MaxVal == 7
\* elements the stand-alone queue is filled up to (5 forces the growth 4 -> 8)
MaxCount == 5
\* ctx->max_surface_count, 32 or 48 in the program, scaled down
MaxSurfaces == 3
\* frames the caller submits before the end of stream
MaxFrames == 5
\* the first frame's pts is drawn from -PtsBelowZero .. 0
PtsBelowZero == 2
\* successive frames' pts differ by 1 .. MaxPtsStep
MaxPtsStep == 1
\* failures injected in one run: av_malloc returning NULL, an accelerator API
\* call returning an error, a failed copy or packet allocation
MaxFaults == 1
\* qmin, qmax and global_quality are drawn from -1 .. MaxQp (the options
\* allow up to 69)
MaxQp == 5
\* max_b_frames is drawn from -1 .. MaxBFrames
MaxBFrames == 2

(***************************************************************************)
(* Program constants.                                                      *)
(***************************************************************************)
\* queue->size = 4 on the first enqueue
QUEUE_INITIAL_SIZE == 4
\* AVERROR(ENOMEM)
AVERROR_ENOMEM == -12
\* AVERROR_EXTERNAL
AVERROR_EXTERNAL == -542398533
\* AV_NOPTS_VALUE is INT64_MIN: the least value of the timestamp type. The
\* model's timestamps are small, so any value far below them plays the part.
AV_NOPTS_VALUE == -1000000
\* a NULL pointer / no surface
NULL == 0
\* an int out-parameter the call has not written
NotWritten == -1

\* uint32_t arithmetic, at a width of 16 bits: every queue size of the model
\* is far below 2^16, and (x mod 2^32) & mask = (x mod 2^16) & mask then.
UintWrap(x) == x % (2^16)

RECURSIVE BitAnd(_, _)
BitAnd(a, b) ==
    IF a = 0 \/ b = 0 THEN 0
    ELSE (IF a % 2 = 1 /\ b % 2 = 1 THEN 1 ELSE 0) + 2 * BitAnd(a \div 2, b \div 2)

(***************************************************************************)
(* NvencDataList: { data, pos, count, size }.  data is the malloc'ed array,*)
(* a function on 0..size-1; a slot never written holds NULL (the program   *)
(* never reads such a slot).                                               *)
(***************************************************************************)
EmptyQueue == [data |-> [i \in {} |-> NULL], pos |-> 0, count |-> 0, size |-> 0]

FreshData(n) == [i \in 0..(n - 1) |-> NULL]

\* data_queue_dequeue: ok = FALSE is the NULL return; assert = TRUE when
\* av_assert0(queue->size) / av_assert0(queue->data) fails.
data_queue_dequeue(queue) ==
    IF queue.size = 0
    THEN [queue |-> queue, ok |-> FALSE, val |-> NULL, assert |-> TRUE]
    ELSE IF queue.count = 0
    THEN [queue |-> queue, ok |-> FALSE, val |-> NULL, assert |-> FALSE]
    ELSE LET mask == queue.size - 1
             read_pos == BitAnd(UintWrap(queue.pos - queue.count), mask)
         IN  [queue |-> [queue EXCEPT !.count = queue.count - 1],
              ok |-> TRUE, val |-> queue.data[read_pos], assert |-> FALSE]

\* the store at the end of data_queue_enqueue (lines 270-274)
QueueStore(queue, v) ==
    LET mask == queue.size - 1
    IN  [queue EXCEPT !.data = [queue.data EXCEPT ![queue.pos] = v],
                      !.pos = BitAnd(UintWrap(queue.pos + 1), mask),
                      !.count = queue.count + 1]

\* while (tmp_data = data_queue_dequeue(queue)) data_queue_enqueue(&new_queue, tmp_data);
RECURSIVE QueueDrainInto(_, _)
QueueDrainInto(queue, new_queue) ==
    LET d == data_queue_dequeue(queue)
    IN  IF d.ok THEN QueueDrainInto(d.queue, QueueStore(new_queue, d.val))
        ELSE new_queue

\* A growth that copies the old array slot by slot, ignoring the wrap-around.
data_queue_enqueue_bulkcopy(queue, v, allocFails) ==
    IF queue.size = 0
    THEN IF allocFails
         THEN [queue |-> EmptyQueue, res |-> AVERROR_ENOMEM]
         ELSE [queue |-> QueueStore([data |-> FreshData(QUEUE_INITIAL_SIZE), pos |-> 0,
                                     count |-> 0, size |-> QUEUE_INITIAL_SIZE], v),
               res |-> 0]
    ELSE IF queue.count = queue.size
    THEN IF allocFails
         THEN [queue |-> queue, res |-> AVERROR_ENOMEM]
         ELSE [queue |-> QueueStore(
                   [data |-> [i \in 0..(2 * queue.size - 1) |->
                                 IF i < queue.size THEN queue.data[i] ELSE NULL],
                    pos |-> queue.count, count |-> queue.count,
                    size |-> 2 * queue.size], v),
               res |-> 0]
    ELSE [queue |-> QueueStore(queue, v), res |-> 0]

\* An enqueue that empties the full queue before it asks for the doubled
\* buffer, so that a failed growth leaves the queue drained.
data_queue_enqueue_drainfirst(queue, v, allocFails) ==
    IF queue.size = 0
    THEN IF allocFails
         THEN [queue |-> [queue EXCEPT !.size = 0, !.pos = 0, !.count = 0,
                                       !.data = [i \in {} |-> NULL]],
               res |-> AVERROR_ENOMEM]
         ELSE [queue |-> QueueStore([data |-> FreshData(QUEUE_INITIAL_SIZE), pos |-> 0,
                                     count |-> 0, size |-> QUEUE_INITIAL_SIZE], v),
               res |-> 0]
    ELSE IF queue.count = queue.size
    THEN IF allocFails
         THEN [queue |-> [queue EXCEPT !.count = 0], res |-> AVERROR_ENOMEM]
         ELSE [queue |-> QueueStore(
                   QueueDrainInto(queue, [data |-> FreshData(2 * queue.size), pos |-> 0,
                                          count |-> 0, size |-> 2 * queue.size]), v),
               res |-> 0]
    ELSE [queue |-> QueueStore(queue, v), res |-> 0]

\* A growth by two slots where the capacity is to be doubled.
data_queue_enqueue_growbytwo(queue, v, allocFails) ==
    IF queue.size = 0
    THEN IF allocFails
         THEN [queue |-> [queue EXCEPT !.size = 0, !.pos = 0, !.count = 0,
                                       !.data = [i \in {} |-> NULL]],
               res |-> AVERROR_ENOMEM]
         ELSE [queue |-> QueueStore([data |-> FreshData(QUEUE_INITIAL_SIZE), pos |-> 0,
                                     count |-> 0, size |-> QUEUE_INITIAL_SIZE], v),
               res |-> 0]
    ELSE IF queue.count = queue.size
    THEN IF allocFails
         THEN [queue |-> queue, res |-> AVERROR_ENOMEM]
         ELSE [queue |-> QueueStore(
                   QueueDrainInto(queue, [data |-> FreshData(queue.size + 2), pos |-> 0,
                                          count |-> 0, size |-> queue.size + 2]), v),
               res |-> 0]
    ELSE [queue |-> QueueStore(queue, v), res |-> 0]

\* data_queue_enqueue: allocFails says that av_malloc, if this call reaches
\* one, returns NULL.
data_queue_enqueue(queue, v, allocFails) ==
    IF queue.size = 0
    THEN IF allocFails
         THEN [queue |-> [queue EXCEPT !.size = 0, !.pos = 0, !.count = 0,
                                       !.data = [i \in {} |-> NULL]],
               res |-> AVERROR_ENOMEM]
         ELSE [queue |-> QueueStore([data |-> FreshData(QUEUE_INITIAL_SIZE), pos |-> 0,
                                     count |-> 0, size |-> QUEUE_INITIAL_SIZE], v),
               res |-> 0]
    ELSE IF queue.count = queue.size
    THEN IF allocFails
         THEN [queue |-> queue, res |-> AVERROR_ENOMEM]
         ELSE [queue |-> QueueStore(
                   QueueDrainInto(queue, [data |-> FreshData(2 * queue.size), pos |-> 0,
                                          count |-> 0, size |-> 2 * queue.size]), v),
               res |-> 0]
    ELSE [queue |-> QueueStore(queue, v), res |-> 0]

\* the live elements of a queue, oldest first
QueueContents(queue) ==
    [k \in 1..queue.count |->
        queue.data[BitAnd(UintWrap(queue.pos - queue.count + (k - 1)), queue.size - 1)]]

(***************************************************************************)
(* NvencContext: the surface pool, the three queues and last_dts.          *)
(*   lockCount[s]      input_surfaces[s].lockCount                         *)
(*   busy[o]           output_surfaces[o].busy                             *)
(*   input_surface[o]  output_surfaces[o].input_surface (NULL: never set)  *)
(* Surfaces are numbered 1..max_surface_count (array index + 1).           *)
(***************************************************************************)
Surfaces == 1..MaxSurfaces

NV_ENC_SUCCESS == "NV_ENC_SUCCESS"
NV_ENC_ERR_NEED_MORE_INPUT == "NV_ENC_ERR_NEED_MORE_INPUT"
NV_ENC_ERR_GENERIC == "NV_ENC_ERR_GENERIC"
NvStatus == {NV_ENC_SUCCESS, NV_ENC_ERR_NEED_MORE_INPUT, NV_ENC_ERR_GENERIC}

\* nvenc_encode_init, lines 574-575: the delay option, clamped to the pool
ClampDelay(delay, max_surface_count) ==
    IF delay >= max_surface_count THEN max_surface_count - 1 ELSE delay

\* A baseline that is set only from two B-frames on.
InitialLastDts_late(frameIntervalP) ==
    IF frameIntervalP >= 3 THEN -2 ELSE AV_NOPTS_VALUE

\* nvenc_encode_init, lines 442 and 630-631
InitialLastDts(frameIntervalP) ==
    IF frameIntervalP >= 2 THEN -2 ELSE AV_NOPTS_VALUE

\* the context after a successful nvenc_encode_init
OpenedContext(delay, fip) ==
    [lockCount |-> [s \in Surfaces |-> 0],
     busy |-> [o \in Surfaces |-> 0],
     input_surface |-> [o \in Surfaces |-> NULL],
     output_surface_queue |-> EmptyQueue,
     output_surface_ready_queue |-> EmptyQueue,
     timestamp_list |-> EmptyQueue,
     last_dts |-> InitialLastDts(fip),
     buffer_delay |-> ClampDelay(delay, MaxSurfaces),
     frameIntervalP |-> fip]

\* An input search that takes slot 1 whatever its lockCount.
FindFreeInput_nocheck(c) == 1

\* An input search that falls back on the last surface of the pool when none
\* is free.
FindFreeInput_reuse(c) ==
    IF \E s \in Surfaces : c.lockCount[s] = 0
    THEN CHOOSE s \in Surfaces :
             c.lockCount[s] = 0 /\ \A t \in 1..(s - 1) : c.lockCount[t] # 0
    ELSE MaxSurfaces

\* lines 1211-1216: the first input surface with lockCount == 0, or NULL
FindFreeInput(c) ==
    IF \E s \in Surfaces : c.lockCount[s] = 0
    THEN CHOOSE s \in Surfaces :
             c.lockCount[s] = 0 /\ \A t \in 1..(s - 1) : c.lockCount[t] # 0
    ELSE NULL

\* An output search that takes slot 1 whatever its busy flag.
FindFreeOutput_nocheck(c) == 1

\* lines 1248-1250: the first output surface that is not busy, or NULL
\* (i == max_surface_count)
FindFreeOutput(c) ==
    IF \E o \in Surfaces : c.busy[o] = 0
    THEN CHOOSE o \in Surfaces :
             c.busy[o] = 0 /\ \A t \in 1..(o - 1) : c.busy[t] # 0
    ELSE NULL

NoPacket == [pts |-> NotWritten, dts |-> NotWritten]

\* What one call has done so far: the context, what it returns and writes,
\* and what the properties below need to know about it (inSurf_lock is the
\* lockCount the acquired input surface had when it was found).
CallStart(c) ==
    [ctx |-> c, returned |-> FALSE, ret |-> 0, got_packet |-> NotWritten,
     pkt |-> NoPacket, aborted |-> "none",
     inSurf |-> NULL, inSurf_lock |-> 0, i |-> NULL,
     nv_status |-> "none", accepted |-> FALSE,
     gate_reached |-> FALSE, gate_ready |-> 0, gate_inflight |-> 0,
     retrieved |-> NULL, failed |-> "none"]

Return(r, code) == [r EXCEPT !.returned = TRUE, !.ret = code]

\* a return taken because the step `what` failed
Fail(r, what, code) == [r EXCEPT !.returned = TRUE, !.ret = code, !.failed = what]

Abort(r, what) == [r EXCEPT !.returned = TRUE, !.aborted = what]

PreSteps == {"ok", "map_failed", "format_mismatch", "copy_failed", "unmap_failed"}

\* A preparation that does not push the frame's pts on the timestamp list.
PrepareFrame_nopush(c, pts, pre, tsAllocFails) ==
    LET r0 == CallStart(c)
        inSurf == FindFreeInput(c)
    IN  IF inSurf = NULL THEN Abort(r0, "av_assert0(inSurf)")
        ELSE
        LET c1 == [c EXCEPT !.lockCount[inSurf] = 1]
            r1 == [r0 EXCEPT !.ctx = c1, !.inSurf = inSurf,
                             !.inSurf_lock = c.lockCount[inSurf]]
        IN  IF pre \in {"map_failed", "format_mismatch", "copy_failed"}
            THEN Fail(r1, pre, 0)
            ELSE IF pre = "unmap_failed" THEN Fail(r1, pre, AVERROR_EXTERNAL)
            ELSE
            LET i == FindFreeOutput(c1)
            IN  IF i = NULL
                THEN Return([r1 EXCEPT !.ctx.lockCount[inSurf] = 0], AVERROR_EXTERNAL)
                ELSE [r1 EXCEPT !.ctx = [c1 EXCEPT !.input_surface[i] = inSurf],
                                !.i = i]

\* nvenc_encode_frame, lines 1207-1297 (a frame is present): acquire the
\* input surface, map / copy / unmap, find the output surface, push the pts.
PrepareFrame(c, pts, pre, tsAllocFails) ==
    LET r0 == CallStart(c)
        inSurf == FindFreeInput(c)
    IN  IF inSurf = NULL THEN Abort(r0, "av_assert0(inSurf)")
        ELSE
        LET c1 == [c EXCEPT !.lockCount[inSurf] = 1]
            r1 == [r0 EXCEPT !.ctx = c1, !.inSurf = inSurf,
                             !.inSurf_lock = c.lockCount[inSurf]]
        IN  IF pre \in {"map_failed", "format_mismatch", "copy_failed"}
            THEN Fail(r1, pre, 0)
            ELSE IF pre = "unmap_failed" THEN Fail(r1, pre, AVERROR_EXTERNAL)
            ELSE
            LET i == FindFreeOutput(c1)
            IN  IF i = NULL
                THEN Return([r1 EXCEPT !.ctx.lockCount[inSurf] = 0], AVERROR_EXTERNAL)
                ELSE
                LET c2 == [c1 EXCEPT !.input_surface[i] = inSurf]
                    e == data_queue_enqueue(c2.timestamp_list, pts, tsAllocFails)
                    r2 == [r1 EXCEPT !.ctx = [c2 EXCEPT !.timestamp_list = e.queue],
                                     !.i = i]
                IN  IF e.res # 0 THEN Fail(r2, "timestamp_enqueue", e.res) ELSE r2

\* lines 1319-1325: move the in-flight queue to the back of the ready queue
RECURSIVE MoveToReady(_, _)
MoveToReady(c, rqAllocFails) ==
    IF c.output_surface_queue.count = 0 THEN [ctx |-> c, res |-> 0]
    ELSE LET d == data_queue_dequeue(c.output_surface_queue)
             e == data_queue_enqueue(c.output_surface_ready_queue, d.val, rqAllocFails)
             c1 == [c EXCEPT !.output_surface_queue = d.queue,
                             !.output_surface_ready_queue = e.queue]
         IN  IF e.res # 0 THEN [ctx |-> c1, res |-> e.res]
             ELSE MoveToReady(c1, rqAllocFails)

\* The result handling of lines 1318-1335 without the test of nv_status: the
\* in-flight surfaces become ready whatever the device answered.
IsNeedMoreInput_never(nv_status) == FALSE

\* the test of lines 1304 and 1318
IsNeedMoreInput(nv_status) == nv_status = NV_ENC_ERR_NEED_MORE_INPUT

\* lines 1302-1335: nvEncEncodePicture has returned nv_status
HandleResult(r, frame, nv_status, oqAllocFails, rqAllocFails) ==
    LET ra == [r EXCEPT !.nv_status = nv_status,
                        !.accepted = frame /\ nv_status \in {NV_ENC_SUCCESS,
                                                            NV_ENC_ERR_NEED_MORE_INPUT}]
        \* 1304-1311
        e1 == data_queue_enqueue(ra.ctx.output_surface_queue, ra.i, oqAllocFails)
        inflight == frame /\ nv_status = NV_ENC_ERR_NEED_MORE_INPUT
        rb == IF ~inflight THEN ra
              ELSE IF e1.res # 0
                   THEN Fail([ra EXCEPT !.ctx.output_surface_queue = e1.queue],
                             "inflight_enqueue", e1.res)
                   ELSE [ra EXCEPT !.ctx.output_surface_queue = e1.queue,
                                   !.ctx.busy[ra.i] = 1]
    IN  IF rb.returned THEN rb
        \* 1313-1316
        ELSE IF nv_status # NV_ENC_SUCCESS /\ nv_status # NV_ENC_ERR_NEED_MORE_INPUT
        THEN Fail(rb, "encode_failed", AVERROR_EXTERNAL)
        \* 1318-1335
        ELSE IF IsNeedMoreInput(nv_status) THEN rb
        ELSE
        LET m == MoveToReady(rb.ctx, rqAllocFails)
            rc == [rb EXCEPT !.ctx = m.ctx]
        IN  IF m.res # 0 THEN Fail(rc, "ready_enqueue", m.res)
            ELSE IF ~frame THEN rc
            ELSE
            LET e2 == data_queue_enqueue(rc.ctx.output_surface_ready_queue, rc.i,
                                         rqAllocFails)
                rd == [rc EXCEPT !.ctx.output_surface_ready_queue = e2.queue]
            IN  IF e2.res # 0 THEN Fail(rd, "ready_enqueue", e2.res)
                ELSE [rd EXCEPT !.ctx.busy[rc.i] = 1]

\* The decode timestamp without the forced-monotonic step of lines 1121-1122.
DecodeTimestamp_nobump(popped, pts, last_dts, frameIntervalP) ==
    LET d1 == IF frameIntervalP >= 2 THEN popped - 1 ELSE popped
    IN  IF d1 > pts THEN pts ELSE d1

\* process_output_surface, lines 1112-1122: pkt->dts from the popped
\* timestamp, the packet's pts and ctx->last_dts
DecodeTimestamp(popped, pts, last_dts, frameIntervalP) ==
    LET d1 == IF frameIntervalP >= 2 THEN popped - 1 ELSE popped
        d2 == IF d1 > pts THEN pts ELSE d1
    IN  IF last_dts # AV_NOPTS_VALUE /\ d2 <= last_dts THEN last_dts + 1 ELSE d2

RetrieveSteps == {"ok", "slice_alloc_failed", "lock_failed", "packet_alloc_failed",
                  "unlock_failed", "bad_picture_type"}

\* A timestamp dequeue that answers 0 where AV_NOPTS_VALUE is meant.
timestamp_queue_dequeue_zero(queue) ==
    LET d == data_queue_dequeue(queue)
    IN  [queue |-> d.queue, assert |-> d.assert,
         val |-> IF d.ok THEN d.val ELSE 0]

\* timestamp_queue_dequeue, lines 305-313
timestamp_queue_dequeue(queue) ==
    LET d == data_queue_dequeue(queue)
    IN  [queue |-> d.queue, assert |-> d.assert,
         val |-> IF d.ok THEN d.val ELSE AV_NOPTS_VALUE]

\* process_output_surface: retr is how far the retrieval gets, outPts the
\* lock_params.outputTimeStamp the device reports. Returns the call so far
\* and res.
process_output_surface(r, tmpoutsurf, retr, outPts) ==
    IF retr = "slice_alloc_failed"
    THEN [r |-> [r EXCEPT !.failed = retr], res |-> AVERROR_ENOMEM]
    ELSE
    LET t == timestamp_queue_dequeue(r.ctx.timestamp_list)
        r1 == [r EXCEPT !.ctx.timestamp_list = t.queue]
    IN  IF t.assert THEN [r |-> Abort(r, "av_assert0(queue->size)"), res |-> 0]
        ELSE IF retr = "lock_failed" \/ retr = "bad_picture_type"
        THEN [r |-> [r1 EXCEPT !.failed = retr], res |-> AVERROR_EXTERNAL]
        ELSE IF retr = "packet_alloc_failed"
        THEN [r |-> [r1 EXCEPT !.failed = retr], res |-> AVERROR_ENOMEM]
        ELSE IF t.val = AV_NOPTS_VALUE /\ r.ctx.frameIntervalP >= 2
        THEN [r |-> Abort(r1, "signed overflow"), res |-> 0]
        ELSE
        \* a failed nvEncUnlockBitstream (lines 1076-1078) is logged, no more
        LET dts == DecodeTimestamp(t.val, outPts, r.ctx.last_dts, r.ctx.frameIntervalP)
        IN  [r |-> [r1 EXCEPT !.pkt = [pts |-> outPts, dts |-> dts],
                              !.ctx.last_dts = dts,
                              !.failed = IF retr = "unlock_failed" THEN retr ELSE @],
             res |-> 0]

\* A gate without the flush alternative: the delay also holds packets back
\* when the call carries no frame.
EmissionGate_noflush(c, frame) ==
    /\ c.output_surface_ready_queue.count # 0
    /\ c.output_surface_ready_queue.count + c.output_surface_queue.count
           >= c.buffer_delay

\* A gate that releases a packet as soon as one is ready.
EmissionGate_nodelay(c, frame) ==
    c.output_surface_ready_queue.count # 0

\* A gate that tests the in-flight queue where the ready queue is meant.
EmissionGate_inflight(c, frame) ==
    /\ c.output_surface_queue.count # 0
    /\ c.output_surface_ready_queue.count # 0
    /\ \/ ~frame
       \/ c.output_surface_ready_queue.count + c.output_surface_queue.count
              >= c.buffer_delay

\* A gate that opens one surface late: > where >= is meant.
EmissionGate_strict(c, frame) ==
    /\ c.output_surface_ready_queue.count # 0
    /\ \/ ~frame
       \/ c.output_surface_ready_queue.count + c.output_surface_queue.count
              > c.buffer_delay

\* line 1337: the emission gate
EmissionGate(c, frame) ==
    /\ c.output_surface_ready_queue.count # 0
    /\ \/ ~frame
       \/ c.output_surface_ready_queue.count + c.output_surface_queue.count
              >= c.buffer_delay

\* lines 1337-1354: the gate and the retrieval of the oldest ready surface
Retrieve(r, frame, retr, outPts) ==
    LET rg == [r EXCEPT !.gate_reached = TRUE,
                        !.gate_ready = r.ctx.output_surface_ready_queue.count,
                        !.gate_inflight = r.ctx.output_surface_queue.count]
    IN  IF ~EmissionGate(r.ctx, frame)
        THEN Return([rg EXCEPT !.got_packet = 0], 0)
        ELSE
        LET d == data_queue_dequeue(r.ctx.output_surface_ready_queue)
            tmpoutsurf == d.val
            r1 == [rg EXCEPT !.ctx.output_surface_ready_queue = d.queue,
                             !.retrieved = tmpoutsurf]
            p == process_output_surface(r1, tmpoutsurf, retr, outPts)
        IN  IF p.r.returned THEN p.r
            ELSE IF p.res # 0 THEN Return(p.r, p.res)
            ELSE
            LET r2 == [p.r EXCEPT !.ctx.busy[tmpoutsurf] = 0]
                inp == r2.ctx.input_surface[tmpoutsurf]
            IN  IF inp = NULL THEN Abort(r2, "NULL input_surface")
                ELSE IF r2.ctx.lockCount[inp] = 0
                THEN Abort(r2, "av_assert0(lockCount)")
                ELSE Return([r2 EXCEPT !.ctx.lockCount[inp] = r2.ctx.lockCount[inp] - 1,
                                       !.got_packet = 1], 0)

(***************************************************************************)
(* nvenc_encode_init and nvenc_encode_close.  A resource is a pair         *)
(* <<kind, index>>; held is the set of resources acquired and not          *)
(* released.  The options are those of the AVOption table (lines           *)
(* 1365-1376) and of the AVCodecContext; a string option that is not set   *)
(* is NoString.  fail names the one step of this call that fails, if the   *)
(* call reaches it: a device call, an allocation, or nothing.  The two     *)
(* __cu(...) calls of lines 461-462 are taken to succeed.                  *)
(***************************************************************************)
AVERROR_EINVAL == -22

NoString == "(null)"

AV_CODEC_ID_H264 == "h264"
AV_CODEC_ID_H265 == "hevc"
Codecs == {AV_CODEC_ID_H264, AV_CODEC_ID_H265}

AV_PIX_FMT_YUV420P == "yuv420p"
AV_PIX_FMT_NV12 == "nv12"

\* the preset strings of lines 476-507
KnownPresets ==
    {"slow", "medium", "fast", "hq", "hp", "bd", "ll", "llhp", "llhq",
     "lossless", "losslesshp", "default"}

\* the profile strings of lines 770-778
KnownH264Profiles == {"high", "main", "baseline"}

\* the tier strings of lines 823-826
KnownTiers == {"main", "high"}

\* the str members of the two tables
nvenc_h264_level_pairs ==
    {"auto", "1", "1.0", "1b", "1.0b", "1.1", "1.2", "1.3", "2", "2.0", "2.1",
     "2.2", "3", "3.0", "3.1", "3.2", "4", "4.0", "4.1", "4.2", "5", "5.0",
     "5.1"}

nvenc_hevc_level_pairs ==
    {"auto", "1", "1.0", "2", "2.0", "2.1", "3", "3.0", "3.1", "4", "4.0",
     "4.1", "5", "5.0", "5.1", "5.2", "6", "6.0", "6.1", "6.2"}

\* A lookup that accepts every string.
input_string_to_uint32_accept(pair, input) == 0

\* input_string_to_uint32: its return value
input_string_to_uint32(pair, input) ==
    IF input \in pair THEN 0 ELSE AVERROR_EINVAL

\* frameIntervalP after init: 0 (gop_size == 0), max_b_frames + 1 otherwise
FrameIntervals == {0, 1, 2}

\* the option values a caller may pass
PresetInputs == {"hq", "ll", "bogus"}
ProfileInputs == {NoString, "main", "bogus"}
LevelInputs == {NoString, "1b", "6.2", "bogus"}
TierInputs == {NoString, "high", "bogus"}
PixFmtInputs == {AV_PIX_FMT_YUV420P, AV_PIX_FMT_NV12, "rgb24"}

\* nvenc_defaults: qmin and qmax are unset
QUnset == -1

\* a field of encode_config that nvenc_encode_init leaves as the memcpy of
\* line 584 filled it from the device's preset configuration
FromPreset == -100

\* opening under every option string and pixel format, the numeric options
\* at their defaults but for the GOP
InitOptions ==
    [codec : Codecs, preset : PresetInputs, profile : ProfileInputs,
     level : LevelInputs, tier : TierInputs, pix_fmt : PixFmtInputs,
     global_header : BOOLEAN, delay : 0..MaxSurfaces,
     cbr : {0}, twopass : {-1}, global_quality : {0},
     qmin : {QUnset}, qmax : {QUnset},
     gop_size : {0, 12}, max_b_frames : {0, 1}, preset_fip : {1},
     width : {1280}, height : {720}]

\* the steps of nvenc_encode_init that can fail for a reason outside the
\* options, with the surface (0: none) at which the step fails
InitFailures ==
    [step : {"none", "nvenc_dyload_nvenc", "get_cuda_context",
             "nvEncOpenEncodeSessionEx", "nvEncGetEncodePresetConfig",
             "nvEncInitializeEncoder", "av_malloc(input_surfaces)",
             "av_malloc(output_surfaces)", "nvEncGetSequenceParams",
             "av_mallocz(extradata)", "ff_add_cpb_side_data"},
     at : {0}]
    \cup [step : {"nvEncRegisterResource", "nvEncCreateBitstreamBuffer"},
          at : Surfaces]

Resource(kind) == <<kind, 0>>

\* what input surface i and output surface i hold once the loop of lines
\* 872-927 has passed them
SurfaceResources(i) == {<<"dptr", i>>, <<"hRes", i>>, <<"bitstream", i>>}

\* the options a caller leaves at their defaults (preset hq, no profile,
\* level or tier, delay INT_MAX, no B-frames)
DefaultOptions ==
    [codec |-> AV_CODEC_ID_H264, preset |-> "hq", profile |-> NoString,
     level |-> NoString, tier |-> NoString, pix_fmt |-> AV_PIX_FMT_YUV420P,
     global_header |-> FALSE, delay |-> MaxSurfaces,
     cbr |-> 0, twopass |-> -1, global_quality |-> 0,
     qmin |-> QUnset, qmax |-> QUnset,
     gop_size |-> 12, max_b_frames |-> 0, preset_fip |-> 1,
     width |-> 1280, height |-> 720]

\* the options of an open that leaves buffer_delay = delay and
\* frameIntervalP = fip
OptionsFor(delay, fip) ==
    [DefaultOptions EXCEPT !.delay = delay,
                           !.gop_size = IF fip = 0 THEN 0 ELSE 12,
                           !.max_b_frames = IF fip = 0 THEN 0 ELSE fip - 1]

\* the numeric options a caller may pass: the rate-control options with the
\* picture and the GOP at their defaults, the picture sizes, the GOP options
RateControlOptions ==
    {[DefaultOptions EXCEPT !.codec = o.codec, !.preset = o.preset,
                            !.cbr = o.cbr, !.twopass = o.twopass,
                            !.global_quality = o.global_quality,
                            !.qmin = o.qmin, !.qmax = o.qmax] :
        o \in [codec : Codecs, preset : KnownPresets, cbr : {0, 1},
               twopass : {-1, 0, 1}, global_quality : {0, 1, MaxQp},
               qmin : QUnset..MaxQp, qmax : QUnset..MaxQp]}

PictureSizes ==
    {<<1920, 1080>>, <<1920, 1088>>, <<1904, 1080>>, <<2040, 1024>>,
     <<2032, 1024>>, <<3840, 2160>>, <<1280, 720>>, <<720, 576>>, <<16, 16>>,
     <<1, 1>>}

PictureOptions ==
    {[DefaultOptions EXCEPT !.width = wh[1], !.height = wh[2]] :
        wh \in PictureSizes}

GopOptions ==
    {[DefaultOptions EXCEPT !.gop_size = o.gop_size,
                            !.max_b_frames = o.max_b_frames,
                            !.preset_fip = o.preset_fip, !.delay = o.delay] :
        o \in [gop_size : {-1, 0, 1, 12}, max_b_frames : -1..MaxBFrames,
               preset_fip : {1, 3}, delay : 0..MaxSurfaces]}

ConfigOptions == RateControlOptions \cup PictureOptions \cup GopOptions

\* A preset resolution that keeps a two-pass value the caller has set.
PresetTwopass_keep(preset, twopass) ==
    IF twopass >= 0 THEN twopass
    ELSE IF preset \in {"ll", "llhp", "llhq", "slow"} THEN 1 ELSE 0

\* lines 476-517: ctx->twopass after the preset strings; slow, medium and
\* fast assign it, the low-latency presets set isLL
PresetTwopass(preset, twopass) ==
    LET assigned == IF preset = "slow" THEN 1
                    ELSE IF preset \in {"medium", "fast"} THEN 0
                    ELSE twopass
        isLL == IF preset \in {"ll", "llhp", "llhq"} THEN 1 ELSE 0
    IN  IF assigned < 0 THEN isLL ELSE assigned

\* lines 500-505
PresetLossless(preset) == IF preset \in {"lossless", "losslesshp"} THEN 1 ELSE 0

\* lines 599-617: encode_config.frameIntervalP and gopLength
FrameIntervalP(opts) ==
    IF opts.gop_size > 0
    THEN IF opts.max_b_frames >= 0 THEN opts.max_b_frames + 1 ELSE opts.preset_fip
    ELSE IF opts.gop_size = 0 THEN 0 ELSE opts.preset_fip

GopLength(opts) ==
    IF opts.gop_size > 0 THEN opts.gop_size
    ELSE IF opts.gop_size = 0 THEN 1 ELSE FromPreset

\* A pool size that switches only above 8160 macroblocks.
MaxSurfaceCount_above(width, height) ==
    LET num_mbs == ((width + 15) \div 16) * ((height + 15) \div 16)
    IN  IF num_mbs > 8160 THEN 32 ELSE 48

\* lines 571-572: ctx->max_surface_count
MaxSurfaceCount(width, height) ==
    LET num_mbs == ((width + 15) \div 16) * ((height + 15) \div 16)
    IN  IF num_mbs >= 8160 THEN 32 ELSE 48

NV_ENC_PARAMS_RC_CONSTQP == "NV_ENC_PARAMS_RC_CONSTQP"
NV_ENC_PARAMS_RC_CBR == "NV_ENC_PARAMS_RC_CBR"
NV_ENC_PARAMS_RC_2_PASS_QUALITY == "NV_ENC_PARAMS_RC_2_PASS_QUALITY"
NV_ENC_PARAMS_RC_2_PASS_VBR == "NV_ENC_PARAMS_RC_2_PASS_VBR"
NV_ENC_PARAMS_RC_VBR_MINQP == "NV_ENC_PARAMS_RC_VBR_MINQP"
NV_ENC_PARAMS_RC_VBR == "NV_ENC_PARAMS_RC_VBR"

\* rcParams as the memcpy of line 584 leaves it, and avctx->qmin, qmax
PresetRateControl(opts) ==
    [rateControlMode |-> "from preset", constQP |-> FromPreset,
     enableMinQP |-> FromPreset, enableMaxQP |-> FromPreset,
     minQP |-> FromPreset, maxQP |-> FromPreset,
     enableInitialRCQP |-> FromPreset, qpInterP |-> FromPreset,
     qmin |-> opts.qmin, qmax |-> opts.qmax]

\* lines 640-649: the lossless branch
LosslessRateControl(rc) ==
    [rc EXCEPT !.rateControlMode = NV_ENC_PARAMS_RC_CONSTQP,
               !.constQP = 0, !.qmin = -1, !.qmax = -1]

\* lines 650-661: the cbr branch
CbrRateControl(rc, twopass) ==
    [rc EXCEPT !.rateControlMode = IF twopass = 0 THEN NV_ENC_PARAMS_RC_CBR
                                   ELSE NV_ENC_PARAMS_RC_2_PASS_QUALITY]

\* lines 662-669: the global_quality branch
ConstQpRateControl(rc, global_quality) ==
    [rc EXCEPT !.rateControlMode = NV_ENC_PARAMS_RC_CONSTQP,
               !.constQP = global_quality, !.qmin = -1, !.qmax = -1]

\* A last branch whose initial QP is biased towards qmax.
VbrRateControl_maxbias(rc, opts, twopass) ==
    IF opts.qmin >= 0 /\ opts.qmax >= 0
    THEN [rc EXCEPT !.enableMinQP = 1, !.enableMaxQP = 1,
                    !.minQP = opts.qmin, !.maxQP = opts.qmax,
                    !.rateControlMode =
                        IF twopass # 0 THEN NV_ENC_PARAMS_RC_2_PASS_VBR
                        ELSE NV_ENC_PARAMS_RC_VBR_MINQP,
                    !.enableInitialRCQP = 1,
                    !.qpInterP = (3 * opts.qmax + opts.qmin) \div 4]
    ELSE [rc EXCEPT !.rateControlMode =
                        IF twopass # 0 THEN NV_ENC_PARAMS_RC_2_PASS_VBR
                        ELSE NV_ENC_PARAMS_RC_VBR,
                    !.enableInitialRCQP = 1, !.qpInterP = 26]

\* lines 670-715: the last branch; qpInterP is initialRCQP.qpInterP, minQP
\* and maxQP the value the three members of each get.  The operands of the
\* division are not negative.
VbrRateControl(rc, opts, twopass) ==
    IF opts.qmin >= 0 /\ opts.qmax >= 0
    THEN [rc EXCEPT !.enableMinQP = 1, !.enableMaxQP = 1,
                    !.minQP = opts.qmin, !.maxQP = opts.qmax,
                    !.rateControlMode =
                        IF twopass # 0 THEN NV_ENC_PARAMS_RC_2_PASS_VBR
                        ELSE NV_ENC_PARAMS_RC_VBR_MINQP,
                    !.enableInitialRCQP = 1,
                    !.qpInterP = (opts.qmax + 3 * opts.qmin) \div 4]
    ELSE [rc EXCEPT !.rateControlMode =
                        IF twopass # 0 THEN NV_ENC_PARAMS_RC_2_PASS_VBR
                        ELSE NV_ENC_PARAMS_RC_VBR,
                    !.enableInitialRCQP = 1, !.qpInterP = 26]

\* A selection that tests cbr before lossless.
RateControl_cbrfirst(opts, twopass, lossless) ==
    LET rc == PresetRateControl(opts)
    IN  IF opts.cbr # 0 THEN CbrRateControl(rc, twopass)
        ELSE IF lossless # 0 THEN LosslessRateControl(rc)
        ELSE IF opts.global_quality > 0
        THEN ConstQpRateControl(rc, opts.global_quality)
        ELSE VbrRateControl(rc, opts, twopass)

\* A selection that tests global_quality before cbr.
RateControl_qualityfirst(opts, twopass, lossless) ==
    LET rc == PresetRateControl(opts)
    IN  IF lossless # 0 THEN LosslessRateControl(rc)
        ELSE IF opts.global_quality > 0
        THEN ConstQpRateControl(rc, opts.global_quality)
        ELSE IF opts.cbr # 0 THEN CbrRateControl(rc, twopass)
        ELSE VbrRateControl(rc, opts, twopass)

\* lines 639-715: rcParams and avctx->qmin, qmax after the rate-control
\* selection; constQP is the value the three constQP members get
RateControl(opts, twopass, lossless) ==
    LET rc == PresetRateControl(opts)
    IN  IF lossless # 0 THEN LosslessRateControl(rc)
        ELSE IF opts.cbr # 0 THEN CbrRateControl(rc, twopass)
        ELSE IF opts.global_quality > 0
        THEN ConstQpRateControl(rc, opts.global_quality)
        ELSE VbrRateControl(rc, opts, twopass)

\* what lines 475-715 derive from the options
Configuration(opts) ==
    [twopass |-> PresetTwopass(opts.preset, opts.twopass),
     lossless |-> PresetLossless(opts.preset),
     frameIntervalP |-> FrameIntervalP(opts),
     gopLength |-> GopLength(opts),
     max_surface_count |-> MaxSurfaceCount(opts.width, opts.height),
     rc |-> RateControl(opts, PresetTwopass(opts.preset, opts.twopass),
                        PresetLossless(opts.preset))]

\* before line 475
NoConfiguration ==
    [twopass |-> -1, lossless |-> 0, frameIntervalP |-> FromPreset,
     gopLength |-> FromPreset, max_surface_count |-> 0,
     rc |-> PresetRateControl(DefaultOptions)]

NoFailure == [step |-> "none", at |-> 0]

\* the exits of nvenc_encode_init that come before the configuration of
\* line 540 on, and those that come before the last_dts of line 442
BeforeConfiguration ==
    {"get_cuda_context", "nvEncOpenEncodeSessionEx", "preset",
     "nvEncGetEncodePresetConfig"}

\* the open state of a context nvenc_encode_init has not been called on
Unopened ==
    [state |-> "unopened", opts |-> DefaultOptions, failed |-> "none", res |-> 0,
     held |-> {}, nvencoder |-> NULL, cu_context |-> NULL, surfaceCount |-> 0,
     cfg |-> NoConfiguration, input_surfaces |-> 0, output_surfaces |-> 0]

\* a return of nvenc_encode_init that does not pass the error label
InitReturn(opts, failed, res, held, nvencoder, cu_context, surfaceCount) ==
    [state |-> IF failed = "none" THEN "opened" ELSE "failed",
     opts |-> opts, failed |-> failed, res |-> res, held |-> held,
     nvencoder |-> nvencoder, cu_context |-> cu_context,
     surfaceCount |-> surfaceCount,
     cfg |-> IF failed \in BeforeConfiguration \cup {"nvenc_dyload_nvenc"}
             THEN NoConfiguration ELSE Configuration(opts),
     input_surfaces |-> IF Resource("input_surfaces") \in held
                        THEN MaxSurfaceCount(opts.width, opts.height) ELSE 0,
     output_surfaces |-> IF Resource("output_surfaces") \in held
                         THEN MaxSurfaceCount(opts.width, opts.height) ELSE 0]

\* the error label: surfaces 1..surfaceCount are unregistered and freed
\* and their bitstream buffers destroyed, then the transfer surface, the
\* encoder, the CUDA context and the library are released, and res is
\* returned as the failing step left it
InitError(opts, failed, res, held, surfaceCount) ==
    InitReturn(opts, failed, res,
               held \ (UNION {SurfaceResources(i) : i \in 1..surfaceCount}
                       \cup {Resource("transferSurf"), Resource("nvencoder"),
                             Resource("cu_context"), Resource("nvenc_lib")}),
               NULL, NULL, surfaceCount)

\* the loop of lines 872-927 from surface i on: the exit it takes
RECURSIVE AllocSurfaces(_, _, _, _)
AllocSurfaces(opts, fail, i, held) ==
    IF i > MaxSurfaces
    THEN [failed |-> "none", res |-> 0, held |-> held, surfaceCount |-> MaxSurfaces]
    ELSE IF opts.pix_fmt \notin {AV_PIX_FMT_YUV420P, AV_PIX_FMT_NV12}
    THEN [failed |-> "pix_fmt", res |-> AVERROR_EINVAL, held |-> held,
          surfaceCount |-> i - 1]
    ELSE IF fail.step = "nvEncRegisterResource" /\ fail.at = i
    THEN [failed |-> fail.step, res |-> AVERROR_EXTERNAL,
          held |-> held \cup {<<"dptr", i>>}, surfaceCount |-> i - 1]
    ELSE IF fail.step = "nvEncCreateBitstreamBuffer" /\ fail.at = i
    THEN [failed |-> fail.step, res |-> AVERROR_EXTERNAL,
          held |-> held \cup {<<"dptr", i>>, <<"hRes", i>>}, surfaceCount |-> i]
    ELSE AllocSurfaces(opts, fail, i + 1, held \cup SurfaceResources(i))

\* the first option string the codec's branch rejects, and the res it sets
\* (lines 769-832); "none" when the branch accepts the options
CodecOptionError(opts) ==
    IF opts.codec = AV_CODEC_ID_H264
    THEN IF opts.profile # NoString /\ opts.profile \notin KnownH264Profiles
         THEN [failed |-> "profile", res |-> AVERROR_EINVAL]
         ELSE IF /\ opts.level # NoString
                 /\ input_string_to_uint32(nvenc_h264_level_pairs, opts.level) # 0
         THEN [failed |-> "level",
               res |-> input_string_to_uint32(nvenc_h264_level_pairs, opts.level)]
         ELSE [failed |-> "none", res |-> 0]
    ELSE IF /\ opts.level # NoString
            /\ input_string_to_uint32(nvenc_hevc_level_pairs, opts.level) # 0
         THEN [failed |-> "level",
               res |-> input_string_to_uint32(nvenc_hevc_level_pairs, opts.level)]
         ELSE IF opts.tier # NoString /\ opts.tier \notin KnownTiers
         THEN [failed |-> "tier", res |-> AVERROR_EINVAL]
         ELSE [failed |-> "none", res |-> 0]

\* nvenc_encode_init from line 844 on: the pool, the sequence header and
\* the side data.  res is 0 when this part is entered.
InitPool(opts, fail, held) ==
    IF fail.step = "av_malloc(input_surfaces)"
    THEN InitError(opts, fail.step, AVERROR_ENOMEM, held, 0)
    ELSE IF fail.step = "av_malloc(output_surfaces)"
    THEN InitError(opts, fail.step, AVERROR_ENOMEM,
                   held \cup {Resource("input_surfaces")}, 0)
    ELSE
    LET h1 == held \cup {Resource("input_surfaces"), Resource("output_surfaces")}
                   \cup IF opts.pix_fmt = AV_PIX_FMT_YUV420P
                        THEN {Resource("transferSurf")} ELSE {}
        a == AllocSurfaces(opts, fail, 1, h1)
    IN  IF a.failed # "none"
        THEN InitError(opts, a.failed, a.res, a.held, a.surfaceCount)
        ELSE IF opts.global_header /\ fail.step = "nvEncGetSequenceParams"
        THEN InitError(opts, fail.step, 0, a.held, a.surfaceCount)
        ELSE IF opts.global_header /\ fail.step = "av_mallocz(extradata)"
        THEN InitError(opts, fail.step, AVERROR_ENOMEM, a.held, a.surfaceCount)
        ELSE
        LET h2 == a.held \cup IF opts.global_header
                              THEN {Resource("extradata")} ELSE {}
        IN  IF fail.step = "ff_add_cpb_side_data"
            THEN InitReturn(opts, fail.step, AVERROR_ENOMEM, h2, 1, 1,
                            a.surfaceCount)
            ELSE InitReturn(opts, "none", 0, h2, 1, 1, a.surfaceCount)

\* nvenc_encode_init on a context that holds nothing
nvenc_encode_init(opts, fail) ==
    IF fail.step = "nvenc_dyload_nvenc"
    THEN InitReturn(opts, fail.step, AVERROR_EXTERNAL, {}, NULL, NULL, 0)
    ELSE
    LET lib == {Resource("nvenc_lib")}
        cu == lib \cup {Resource("cu_context")}
        enc == cu \cup {Resource("nvencoder")}
        o == CodecOptionError(opts)
    IN  IF fail.step = "get_cuda_context"
        THEN InitError(opts, fail.step, AVERROR_EXTERNAL, lib, 0)
        ELSE IF fail.step = "nvEncOpenEncodeSessionEx"
        THEN InitError(opts, fail.step, AVERROR_EXTERNAL, cu, 0)
        ELSE IF opts.preset \notin KnownPresets
        THEN InitError(opts, "preset", AVERROR_EINVAL, enc, 0)
        ELSE IF fail.step = "nvEncGetEncodePresetConfig"
        THEN InitError(opts, fail.step, AVERROR_EXTERNAL, enc, 0)
        ELSE IF o.failed # "none"
        THEN InitError(opts, o.failed, o.res, enc, 0)
        ELSE IF fail.step = "nvEncInitializeEncoder"
        THEN InitError(opts, fail.step, AVERROR_EXTERNAL, enc, 0)
        ELSE InitPool(opts, fail, enc)

\* the NvencContext fields of the frame path as nvenc_encode_init leaves them
ContextAfterInit(c, o) ==
    IF o.failed = "none"
    THEN OpenedContext(o.opts.delay, FrameIntervalP(o.opts))
    ELSE IF o.failed = "nvenc_dyload_nvenc"
    THEN c
    ELSE IF o.failed \in BeforeConfiguration
    THEN [c EXCEPT !.last_dts = AV_NOPTS_VALUE]
    ELSE [c EXCEPT !.last_dts = InitialLastDts(FrameIntervalP(o.opts)),
                   !.buffer_delay = ClampDelay(o.opts.delay, MaxSurfaces),
                   !.frameIntervalP = FrameIntervalP(o.opts)]

\* nvenc_encode_close: the open state it leaves
nvenc_encode_close(o) ==
    [o EXCEPT !.state = "closed",
              !.held = @ \ (UNION {SurfaceResources(i) : i \in Surfaces}
                            \cup {Resource("nvencoder"), Resource("cu_context"),
                                  Resource("nvenc_lib")}),
              !.nvencoder = NULL, !.cu_context = NULL]

(***************************************************************************)
(* State.                                                                  *)
(*   ctx          the NvencContext                                         *)
(*   ret, got_packet, pkt   what the last nvenc_encode_frame call returned *)
(*                and wrote: got_packet, pkt->pts, pkt->dts                *)
(*   aborted      the assertion that ended the process, or "none"          *)
(*   call         the last call: its frame, the device's answer, the gate  *)
(*   eos, frames, last_pts   the caller: end of stream signalled, frames   *)
(*                submitted, the pts of the last one                       *)
(*   subPts, pending   the device: the inputTimeStamp submitted with each  *)
(*                output buffer, and the timestamps of the pictures it has *)
(*                accepted and not yet reported                            *)
(*   accIdx, nAccepted, nRetrieved, devDone, npackets, emitted_dts         *)
(*                history: the rank of each surface's frame among the      *)
(*                frames the device accepted, counts, the surfaces whose   *)
(*                submission the device has answered with a result other   *)
(*                than NEED_MORE_INPUT, the dts of the last packet         *)
(*   answers      the device's answers to the frames so far: steady says   *)
(*                that they were NEED_MORE_INPUT lead times and SUCCESS    *)
(*                from then on, first is the number of the frame-carrying  *)
(*                call that emitted the first packet (0: none yet)         *)
(*   faults       the failures injected so far                             *)
(*   tick         the parity of the flush calls a fair caller has made     *)
(*   queue, fifo, qcall   a stand-alone NvencDataList, the values a client *)
(*                has enqueued and not yet dequeued, and its last call     *)
(*   open         what nvenc_encode_init / nvenc_encode_close left: the    *)
(*                options, the exit taken, the return value, the resources *)
(*                held, the two handles                                    *)
(***************************************************************************)
VARIABLES ctx, ret, got_packet, pkt, aborted, call, eos, frames, last_pts,
          subPts, pending, accIdx, nAccepted, nRetrieved, devDone, npackets,
          emitted_dts, answers, faults, tick, queue, fifo, qcall, open

encVars == <<ctx, ret, got_packet, pkt, aborted, call, eos, frames, last_pts,
             subPts, pending, accIdx, nAccepted, nRetrieved, devDone, npackets,
             emitted_dts, answers, faults, tick>>
queueVars == <<queue, fifo, qcall>>
initVars == <<open>>
vars == <<encVars, queueVars, initVars>>

NoCall ==
    [frame |-> FALSE, nv_status |-> "none", accepted |-> FALSE, inSurf |-> NULL,
     inSurf_lock |-> 0, i |-> NULL, gate_reached |-> FALSE, gate_ready |-> 0, gate_inflight |-> 0,
     retrieved |-> NULL, retrieved_done |-> FALSE, retrieved_inflight |-> FALSE,
     retrieved_rank |-> 0, prev_dts |-> AV_NOPTS_VALUE, failed |-> "none"]

\* no frame submitted yet; also the record of a run whose answers are not
\* NEED_MORE_INPUT ... NEED_MORE_INPUT SUCCESS ... SUCCESS
NoAnswers == [steady |-> TRUE, lead |-> 0, first |-> 0]

OtherAnswers == [steady |-> FALSE, lead |-> 0, first |-> 0]

\* the answers after a frame-carrying call, the frames-th + 1, that the device
\* answered with nv_status ("none": the call did not reach nvEncEncodePicture)
NextAnswers(nv_status, packet) ==
    IF /\ answers.steady
       /\ \/ nv_status = NV_ENC_SUCCESS
          \/ nv_status = NV_ENC_ERR_NEED_MORE_INPUT /\ answers.lead = frames
    THEN [steady |-> TRUE,
          lead |-> IF nv_status = NV_ENC_ERR_NEED_MORE_INPUT
                   THEN answers.lead + 1 ELSE answers.lead,
          first |-> IF answers.first = 0 /\ packet THEN frames + 1
                    ELSE answers.first]
    ELSE OtherAnswers

\* the state of the calls before the first call
InitCalls ==
    /\ ret = 0
    /\ got_packet = NotWritten
    /\ pkt = NoPacket
    /\ aborted = "none"
    /\ call = NoCall
    /\ eos = FALSE
    /\ frames = 0
    /\ last_pts = AV_NOPTS_VALUE
    /\ subPts = [o \in Surfaces |-> AV_NOPTS_VALUE]
    /\ pending = {}
    /\ accIdx = [o \in Surfaces |-> 0]
    /\ nAccepted = 0
    /\ nRetrieved = 0
    /\ devDone = {}
    /\ npackets = 0
    /\ emitted_dts = ctx.last_dts
    /\ answers = NoAnswers
    /\ faults = 0
    /\ tick = 0
    /\ queue = EmptyQueue
    /\ fifo = << >>
    /\ qcall = [op |-> "none", res |-> 0, val |-> NULL, expected |-> NULL,
                before_count |-> 0, wrapGrown |-> FALSE, serial |-> 0,
                assert |-> FALSE]

\* after a successful nvenc_encode_init
Init ==
    /\ ctx \in {OpenedContext(d, f) : d \in 0..MaxSurfaces, f \in FrameIntervals}
    /\ open = nvenc_encode_init(OptionsFor(ctx.buffer_delay, ctx.frameIntervalP),
                                NoFailure)
    /\ InitCalls

\* the pts the caller may give the next frame: strictly increasing
NextPts ==
    IF frames = 0 THEN (0 - PtsBelowZero)..0
    ELSE (last_pts + 1)..(last_pts + MaxPtsStep)

\* the elements of a sequence
Range(f) == {f[x] : x \in DOMAIN f}

\* lock_params.outputTimeStamp for output buffer o: without B-frames the
\* picture submitted with that buffer; with B-frames the device reorders, and
\* the buffer holds any picture it has accepted and not yet reported.
DeviceOutputs(frameIntervalP, o, sub, pend) ==
    IF frameIntervalP >= 2 /\ pend # {} THEN pend ELSE {sub[o]}

\* The end of a call: r is what the handler did, frame whether it carried a
\* frame with timestamp pts, sub/pend/done/acc/nacc the device and history
\* after the submission.
Finish(r, frame, pts, sub, pend, done, acc, nacc, nfaults) ==
    /\ ctx' = r.ctx
    /\ faults' = faults + nfaults
    /\ ret' = r.ret
    /\ got_packet' = r.got_packet
    /\ pkt' = r.pkt
    /\ aborted' = r.aborted
    /\ eos' = (eos \/ ~frame)
    /\ frames' = IF frame THEN frames + 1 ELSE frames
    /\ last_pts' = IF frame THEN pts ELSE last_pts
    /\ subPts' = sub
    /\ pending' = IF r.got_packet = 1 THEN pend \ {r.pkt.pts} ELSE pend
    /\ accIdx' = acc
    /\ nAccepted' = nacc
    /\ nRetrieved' = IF r.retrieved # NULL THEN nRetrieved + 1 ELSE nRetrieved
    /\ devDone' = IF r.got_packet = 1 THEN done \ {r.retrieved} ELSE done
    /\ npackets' = IF r.got_packet = 1 THEN npackets + 1 ELSE npackets
    /\ emitted_dts' = IF r.got_packet = 1 THEN r.pkt.dts ELSE emitted_dts
    /\ answers' = IF frame THEN NextAnswers(r.nv_status, r.got_packet = 1)
                  ELSE answers
    /\ call' = [frame |-> frame, nv_status |-> r.nv_status, accepted |-> r.accepted,
                inSurf |-> r.inSurf, inSurf_lock |-> r.inSurf_lock, i |-> r.i,
                gate_reached |-> r.gate_reached, gate_ready |-> r.gate_ready,
                gate_inflight |-> r.gate_inflight, retrieved |-> r.retrieved,
                retrieved_done |-> r.retrieved # NULL /\ r.retrieved \in done,
                retrieved_inflight |->
                    r.retrieved # NULL
                    /\ r.retrieved \in Range(QueueContents(r.ctx.output_surface_queue)),
                retrieved_rank |-> IF r.retrieved # NULL THEN acc[r.retrieved] ELSE 0,
                prev_dts |-> emitted_dts, failed |-> r.failed]
    /\ UNCHANGED <<queueVars, initVars>>

(***************************************************************************)
(* A client of one stand-alone NvencDataList.  fifo is what it has         *)
(* enqueued and not yet dequeued; qcall is its last call: the value given  *)
(* or returned, the value a FIFO returns (expected), the count before the  *)
(* call, whether the queue has ever grown while its read position was not  *)
(* at slot 0, the last serial number enqueued, and whether the call failed *)
(* av_assert0(queue->size), which ends the process.                        *)
(***************************************************************************)
QueueEnqueue ==
    /\ ~qcall.assert
    /\ queue.count < MaxCount
    /\ \E v \in {(qcall.serial % MaxVal) + 1} :
       \E allocFails \in IF queue.size = 0 \/ queue.count = queue.size
                          THEN BOOLEAN ELSE {FALSE} :
          LET e == data_queue_enqueue(queue, v, allocFails)
          IN  /\ queue' = e.queue
              /\ fifo' = IF e.res = 0 THEN Append(fifo, v) ELSE fifo
              /\ qcall' = [op |-> "enqueue", res |-> e.res, val |-> v,
                           expected |-> NULL, before_count |-> queue.count,
                           serial |-> IF e.res = 0 THEN v ELSE qcall.serial,
                           assert |-> FALSE,
                           wrapGrown |-> \/ qcall.wrapGrown
                                         \/ /\ e.res = 0
                                            /\ queue.size # 0
                                            /\ queue.count = queue.size
                                            /\ queue.pos # 0]
    /\ UNCHANGED <<encVars, initVars>>

\* out_surf_queue_dequeue (lines 287-295)
QueueDequeue ==
    /\ ~qcall.assert
    /\ LET d == data_queue_dequeue(queue)
       IN  /\ queue' = d.queue
           /\ fifo' = IF fifo = << >> THEN fifo ELSE Tail(fifo)
           /\ qcall' = [op |-> "dequeue", res |-> 0,
                        val |-> IF d.ok THEN d.val ELSE NULL,
                        expected |-> IF fifo = << >> THEN NULL ELSE Head(fifo),
                        before_count |-> queue.count, assert |-> d.assert,
                        wrapGrown |-> qcall.wrapGrown, serial |-> qcall.serial]
    /\ UNCHANGED <<encVars, initVars>>

\* timestamp_queue_dequeue (lines 305-313)
QueueTimestampDequeue ==
    /\ ~qcall.assert
    /\ LET d == timestamp_queue_dequeue(queue)
       IN  /\ queue' = d.queue
           /\ fifo' = IF fifo = << >> THEN fifo ELSE Tail(fifo)
           /\ qcall' = [op |-> "timestamp_dequeue", res |-> 0, val |-> d.val,
                        expected |-> IF fifo = << >> THEN AV_NOPTS_VALUE
                                     ELSE Head(fifo),
                        before_count |-> queue.count, assert |-> d.assert,
                        wrapGrown |-> qcall.wrapGrown, serial |-> qcall.serial]
    /\ UNCHANGED <<encVars, initVars>>

\* b failures may still be injected: the outcomes of a step that can fail
Outcomes(all, normal, b) == IF b > 0 THEN all ELSE {normal}

\* av_malloc is reached by data_queue_enqueue only on the first enqueue and on
\* an enqueue into a full queue: only then can the allocation fail.
AllocOutcomes(q, b) ==
    IF b > 0 /\ (q.size = 0 \/ q.count = q.size) THEN BOOLEAN ELSE {FALSE}

Cost(failed) == IF failed THEN 1 ELSE 0

\* The rest of a call once nvEncEncodePicture has been answered and the result
\* handled (r2): the gate and the retrieval. nf failures were injected so far.
GateAndRetrieve(r2, frame, pts, nf) ==
    LET answered == r2.nv_status # NV_ENC_ERR_NEED_MORE_INPUT
        inflight == Range(QueueContents(ctx.output_surface_queue))
        sub == IF r2.accepted THEN [subPts EXCEPT ![r2.i] = pts] ELSE subPts
        pend == IF r2.accepted THEN pending \cup {pts} ELSE pending
        acc == IF r2.accepted THEN [accIdx EXCEPT ![r2.i] = nAccepted + 1] ELSE accIdx
        nacc == IF r2.accepted THEN nAccepted + 1 ELSE nAccepted
        done0 == IF r2.accepted THEN devDone \ {r2.i} ELSE devDone
        done == IF ~answered THEN done0
                ELSE done0 \cup inflight \cup (IF r2.accepted THEN {r2.i} ELSE {})
    IN  IF r2.returned THEN Finish(r2, frame, pts, sub, pend, done, acc, nacc, nf)
        ELSE IF ~EmissionGate(r2.ctx, frame)
        THEN Finish(Retrieve(r2, frame, "ok", 0), frame, pts, sub, pend, done, acc,
                    nacc, nf)
        ELSE \E retr \in Outcomes(RetrieveSteps, "ok", MaxFaults - faults - nf) :
             \E outPts \in IF retr \in {"ok", "unlock_failed"}
                           THEN DeviceOutputs(r2.ctx.frameIntervalP,
                                              data_queue_dequeue(
                                                  r2.ctx.output_surface_ready_queue).val,
                                              sub, pend)
                           ELSE {0} :
                 Finish(Retrieve(r2, frame, retr, outPts),
                        frame, pts, sub, pend, done, acc, nacc,
                        nf + Cost(retr # "ok"))

\* the answers of nvEncEncodePicture when b failures may still be injected
StatusOutcomes(b) ==
    IF b > 0 THEN NvStatus ELSE {NV_ENC_SUCCESS, NV_ENC_ERR_NEED_MORE_INPUT}

\* nvenc_encode_frame with a frame
EncodeFrame ==
    /\ aborted = "none"
    /\ UNCHANGED tick
    /\ ~eos
    /\ frames < MaxFrames
    /\ \E pts \in NextPts, pre \in Outcomes(PreSteps, "ok", MaxFaults - faults) :
       \E tsAllocFails \in IF pre = "ok"
                           THEN AllocOutcomes(ctx.timestamp_list, MaxFaults - faults)
                           ELSE {FALSE} :
          LET r1 == PrepareFrame(ctx, pts, pre, tsAllocFails)
              nf1 == Cost(pre # "ok") + Cost(tsAllocFails)
          IN  IF r1.returned
              THEN Finish(r1, TRUE, pts, subPts, pending, devDone, accIdx, nAccepted,
                          nf1)
              ELSE \E nv_status \in StatusOutcomes(MaxFaults - faults - nf1) :
                   \E oqAllocFails \in
                          IF nv_status = NV_ENC_ERR_NEED_MORE_INPUT
                          THEN AllocOutcomes(ctx.output_surface_queue,
                                             MaxFaults - faults - nf1)
                          ELSE {FALSE} :
                   \E rqAllocFails \in
                          IF nv_status = NV_ENC_SUCCESS
                          THEN AllocOutcomes(ctx.output_surface_ready_queue,
                                             MaxFaults - faults - nf1)
                          ELSE {FALSE} :
                       GateAndRetrieve(
                           HandleResult(r1, TRUE, nv_status, oqAllocFails, rqAllocFails),
                           TRUE, pts,
                           nf1 + Cost(nv_status = NV_ENC_ERR_GENERIC)
                               + Cost(oqAllocFails) + Cost(rqAllocFails))

\* nvenc_encode_frame with frame == NULL: the end-of-stream submission
FlushCall ==
    /\ aborted = "none"
    /\ \E nv_status \in StatusOutcomes(MaxFaults - faults) :
       \E rqAllocFails \in
              IF nv_status = NV_ENC_SUCCESS /\ ctx.output_surface_queue.count # 0
              THEN AllocOutcomes(ctx.output_surface_ready_queue, MaxFaults - faults)
              ELSE {FALSE} :
           GateAndRetrieve(
               HandleResult(CallStart(ctx), FALSE, nv_status, FALSE, rqAllocFails),
               FALSE, 0,
               Cost(nv_status = NV_ENC_ERR_GENERIC) + Cost(rqAllocFails))

EncodeFlush == FlushCall /\ UNCHANGED tick

Next == EncodeFrame \/ EncodeFlush

Spec == Init /\ [][Next]_vars

\* A flush call of a caller that keeps calling: tick makes every such call a
\* step, also one that leaves the encoder as it was.
EncodeFlushAgain == FlushCall /\ tick' = 1 - tick

NextFlush == EncodeFrame \/ EncodeFlushAgain

\* The caller's next call: nvenc_encode_frame can be called (again) as long as
\* no assertion has ended the process, and only a flush call of NextFlush
\* changes tick.  So a step of CallerKeepsFlushing is a step of
\* EncodeFlushAgain, and it is enabled exactly when EncodeFlushAgain is.
CallerKeepsFlushing == aborted = "none" /\ tick' = 1 - tick

\* The caller never stops: once no frame is left (or at any earlier point) it
\* calls with frame == NULL, again and again.
SpecFlush == Init /\ [][NextFlush]_vars /\ WF_tick(CallerKeepsFlushing)

\* the caller opens the encoder; a context is opened once
EncodeInit ==
    /\ open.state = "unopened"
    /\ \E opts \in InitOptions : \E fail \in InitFailures :
          /\ open' = nvenc_encode_init(opts, fail)
          /\ ctx' = ContextAfterInit(ctx, open')
    /\ UNCHANGED <<ret, got_packet, pkt, aborted, call, eos, frames, last_pts,
                   subPts, pending, accIdx, nAccepted, nRetrieved, devDone,
                   npackets, emitted_dts, answers, faults, tick>>
    /\ UNCHANGED queueVars

\* the caller closes an encoder that was opened
EncodeClose ==
    /\ open.state = "opened"
    /\ open' = nvenc_encode_close(open)
    /\ ctx' = [ctx EXCEPT !.timestamp_list.data = FreshData(0),
                          !.output_surface_ready_queue.data = FreshData(0),
                          !.output_surface_queue.data = FreshData(0)]
    /\ UNCHANGED <<ret, got_packet, pkt, aborted, call, eos, frames, last_pts,
                   subPts, pending, accIdx, nAccepted, nRetrieved, devDone,
                   npackets, emitted_dts, answers, faults, tick>>
    /\ UNCHANGED queueVars

NextInit == EncodeInit \/ EncodeClose

\* the caller opens the encoder with the numeric options set; every device
\* call and allocation succeeds
EncodeInitConfigured ==
    /\ open.state = "unopened"
    /\ \E opts \in ConfigOptions :
          /\ open' = nvenc_encode_init(opts, NoFailure)
          /\ ctx' = ContextAfterInit(ctx, open')
    /\ UNCHANGED <<ret, got_packet, pkt, aborted, call, eos, frames, last_pts,
                   subPts, pending, accIdx, nAccepted, nRetrieved, devDone,
                   npackets, emitted_dts, answers, faults, tick>>
    /\ UNCHANGED queueVars

NextConfig == EncodeInitConfigured \/ EncodeClose

NextQueue == QueueEnqueue \/ QueueDequeue \/ QueueTimestampDequeue

\* the queue alone, under any sequence of enqueues and dequeues
InitQueue == Init /\ ctx = OpenedContext(0, 0)

SpecQueue == InitQueue /\ [][NextQueue]_vars

\* the context as avcodec_open2 hands it to nvenc_encode_init: zeroed, no
\* pool yet
UnopenedContext == [OpenedContext(0, 0) EXCEPT !.last_dts = 0]

InitUnopened == ctx = UnopenedContext /\ open = Unopened /\ InitCalls

\* opening and closing the encoder, under any options and any failing step
SpecInit == InitUnopened /\ [][NextInit]_vars

\* opening under every combination of the numeric options
SpecConfig == InitUnopened /\ [][NextConfig]_vars

(***************************************************************************)
(* C1: the values returned by successful dequeues are the enqueued values  *)
(* in enqueue order: every dequeue returns the oldest value enqueued and   *)
(* not yet dequeued, and the queue holds exactly those values, in order,   *)
(* also across a growth and with a wrapped read position.                  *)
(***************************************************************************)
C1_Fifo ==
    /\ QueueContents(queue) = fifo
    /\ qcall.op \in {"dequeue", "timestamp_dequeue"} /\ qcall.before_count # 0
           => qcall.val = qcall.expected

\* a value enqueued before a growth with a wrapped read position is dequeued
\* after it
C1_Witness ==
    /\ qcall.op = "dequeue"
    /\ qcall.wrapGrown
    /\ qcall.val = qcall.expected
    /\ qcall.val # NULL
    /\ queue.size = 2 * QUEUE_INITIAL_SIZE
    /\ queue.count = QUEUE_INITIAL_SIZE


(***************************************************************************)
(* The emission gate of the last call, from the counts it saw: the ready   *)
(* queue was non-empty and the call carried no frame or ready + in-flight  *)
(* had reached the buffering delay.                                        *)
(***************************************************************************)
GateHeld ==
    /\ call.gate_ready # 0
    /\ \/ ~call.frame
       \/ call.gate_ready + call.gate_inflight >= ctx.buffer_delay

(***************************************************************************)
(* C2, as stated: on a call that has processed the device result,          *)
(* got_packet is 1 if and only if the gate held, and is 0 otherwise.       *)
(***************************************************************************)
C2_GateDecidesPacket ==
    call.gate_reached =>
        /\ (got_packet = 1) <=> GateHeld
        /\ ~GateHeld => got_packet = 0
        /\ got_packet \in {0, 1}

(***************************************************************************)
(* C2, amended: got_packet is 1 if and only if the call reached the gate,  *)
(* the gate held and the retrieval succeeded (the call returns 0); when    *)
(* the gate did not hold the call returns 0 with got_packet = 0; when the  *)
(* retrieval failed the call returns the error and got_packet is not       *)
(* written. A call takes at most one surface from the ready queue.         *)
(***************************************************************************)
C2_GateAndRetrievalDecidePacket ==
    /\ (got_packet = 1) <=> (call.gate_reached /\ GateHeld /\ ret = 0
                             /\ aborted = "none")
    /\ call.gate_reached /\ ~GateHeld => got_packet = 0 /\ ret = 0
    /\ call.gate_reached /\ GateHeld /\ ret # 0 => got_packet = NotWritten
    /\ call.gate_reached =>
           ctx.output_surface_ready_queue.count
               = call.gate_ready - (IF GateHeld THEN 1 ELSE 0)

\* a frame-carrying call under a delay of 2 that emits a packet while a ready
\* surface stays behind
C2_Witness ==
    /\ call.frame
    /\ got_packet = 1
    /\ ctx.buffer_delay = 2
    /\ call.gate_ready + call.gate_inflight >= 2
    /\ ctx.output_surface_ready_queue.count >= 1

\* a flush call that reports no packet with both queues empty
DrainedCall ==
    /\ eos
    /\ ~call.frame
    /\ call.gate_reached
    /\ got_packet = 0
    /\ ctx.output_surface_queue.count = 0
    /\ ctx.output_surface_ready_queue.count = 0

(***************************************************************************)
(* C3, as stated: once the caller has started to flush, repeated flush     *)
(* calls lead to a call that reports no packet with the in-flight and the  *)
(* ready queue empty, and after such a call no flush call produces a       *)
(* packet.                                                                 *)
(***************************************************************************)
C3_FlushDrains ==
    /\ eos ~> DrainedCall
    /\ [](DrainedCall => [](got_packet # 1))

(***************************************************************************)
(* C3, amended: the same, provided that from some call on the device       *)
(* answers every end-of-stream submission with NV_ENC_SUCCESS.             *)
(***************************************************************************)
C3_FlushDrainsOnceDeviceAcceptsEos ==
    /\ <>[](eos => call.nv_status = NV_ENC_SUCCESS) => (eos ~> DrainedCall)
    /\ [](DrainedCall => [](got_packet # 1))

\* the stream is drained after the flush calls have released the packets that
\* a delay of 2 had held back
C3_Witness ==
    /\ DrainedCall
    /\ ctx.buffer_delay = 2
    /\ npackets >= 2
    /\ npackets = nAccepted
    /\ call.nv_status = NV_ENC_SUCCESS

(***************************************************************************)
(* C4: a surface is handed to process_output_surface only if the device    *)
(* has answered, at or after the call that submitted it, with a result     *)
(* other than NEED_MORE_INPUT, and it is not in the in-flight queue.       *)
(***************************************************************************)
C4_RetrievedOnlyWhenDone ==
    call.retrieved # NULL => call.retrieved_done /\ ~call.retrieved_inflight

\* a surface submitted by an earlier call is retrieved by a frame-carrying call
\* with no buffering delay: it waited in the in-flight queue
C4_Witness ==
    /\ got_packet = 1
    /\ call.frame
    /\ ctx.buffer_delay = 0
    /\ call.retrieved # call.i
    /\ call.retrieved_done

(***************************************************************************)
(* C5, as stated: the k-th surface handed to process_output_surface is the *)
(* output surface of the k-th frame the device accepted.                   *)
(***************************************************************************)
C5_RetrievedInSubmissionOrder ==
    call.retrieved # NULL => call.retrieved_rank = nRetrieved

(***************************************************************************)
(* C6: the decode timestamps of successive packets strictly increase: the  *)
(* dts of a packet is above the dts of the packet before it (for the first *)
(* packet, above the baseline -2 when B-frame reordering is active), and   *)
(* last_dts is the dts just emitted.                                       *)
(***************************************************************************)
C6_DtsStrictlyIncreasing ==
    got_packet = 1 =>
        /\ ctx.last_dts = pkt.dts
        /\ (npackets > 1 \/ ctx.frameIntervalP >= 2) => pkt.dts > call.prev_dts

\* a second or later packet, with reordering, whose dts had to be forced to
\* last_dts + 1
C6_Witness ==
    /\ got_packet = 1
    /\ npackets >= 2
    /\ ctx.frameIntervalP >= 2
    /\ pkt.dts = call.prev_dts + 1
    /\ pkt.dts > pkt.pts

(***************************************************************************)
(* C7, as stated: the dts of an emitted packet never exceeds its pts.      *)
(***************************************************************************)
C7_DtsNotAfterPts ==
    got_packet = 1 => pkt.dts <= pkt.pts

(***************************************************************************)
(* C8, as stated: without B-frame reordering (frameIntervalP 0 or 1), pts  *)
(* strictly increasing and the device reporting each buffer's own picture, *)
(* every packet has dts = pts and packets come out in submission order.    *)
(***************************************************************************)
C8_DtsEqualsPts ==
    got_packet = 1 /\ ctx.frameIntervalP <= 1 =>
        /\ pkt.dts = pkt.pts
        /\ pkt.pts = subPts[call.retrieved]

(***************************************************************************)
(* C9: every lockCount is 0 or 1; the input surface a call acquires had    *)
(* lockCount 0; the assertion before the decrement never fires.            *)
(***************************************************************************)
C9_LockCountZeroOrOne ==
    /\ \A s \in Surfaces : ctx.lockCount[s] \in {0, 1}
    /\ call.inSurf # NULL => call.inSurf_lock = 0
    /\ aborted # "av_assert0(lockCount)"

\* a packet was emitted and its input surface released while another input
\* surface stays locked
C9_Witness ==
    /\ got_packet = 1
    /\ ctx.lockCount[ctx.input_surface[call.retrieved]] = 0
    /\ \E s \in Surfaces : ctx.lockCount[s] = 1

\* the output surfaces held by the in-flight and the ready queue, in order
Outstanding ==
    QueueContents(ctx.output_surface_queue)
        \o QueueContents(ctx.output_surface_ready_queue)

(***************************************************************************)
(* C10: no output surface occurs twice in the in-flight and ready queues   *)
(* together, and no input surface is the input_surface of two busy output  *)
(* surfaces.                                                               *)
(***************************************************************************)
C10_NoSlotSharedByTwoSubmissions ==
    /\ \A j, k \in 1..Len(Outstanding) : j # k => Outstanding[j] # Outstanding[k]
    /\ \A o1, o2 \in Surfaces :
           (o1 # o2 /\ ctx.busy[o1] = 1 /\ ctx.busy[o2] = 1)
               => ctx.input_surface[o1] # ctx.input_surface[o2]

\* several submissions are outstanding, in flight and ready, on distinct slots
C10_Witness ==
    /\ Len(Outstanding) >= 2
    /\ ctx.output_surface_queue.count >= 1
    /\ ctx.output_surface_ready_queue.count >= 1
    /\ \A o \in Range(Outstanding) : ctx.busy[o] = 1

(***************************************************************************)
(* C11: a frame-carrying call made while every input surface of the pool   *)
(* is locked acquires no surface: the search finds none, av_assert0(inSurf)*)
(* ends the call, and no lockCount, busy flag or queue is touched.         *)
(***************************************************************************)
C11_NoFreeSurfaceWhenAllLocked ==
    [][(frames' = frames + 1 /\ \A s \in Surfaces : ctx.lockCount[s] # 0)
           => /\ aborted' = "av_assert0(inSurf)"
              /\ call'.inSurf = NULL
              /\ ctx' = ctx]_vars

\* the pool of MaxSurfaces input surfaces is all locked and one more frame
\* has been submitted
C11_Witness ==
    /\ aborted = "av_assert0(inSurf)"
    /\ call.frame
    /\ frames = MaxSurfaces + 1
    /\ \A s \in Surfaces : ctx.lockCount[s] = 1

C13_PacketOnEveryAnsweredCall ==
    (call.frame /\ ctx.buffer_delay = 0
        /\ call.nv_status \notin {"none", NV_ENC_ERR_NEED_MORE_INPUT})
        => got_packet = 1

(***************************************************************************)
(* C13, amended: with buffer_delay = 0, a frame-carrying call on which the *)
(* device returns NV_ENC_SUCCESS and in which no enqueue and no step of    *)
(* process_output_surface fails returns 0 with exactly one packet: one     *)
(* surface leaves the ready queue, however many were ready or in flight.   *)
(* When the device returns an error the call returns AVERROR_EXTERNAL, and *)
(* when a later step fails its error code, with got_packet not written.    *)
(***************************************************************************)
C13_PacketOnEverySuccessfulCall ==
    (call.frame /\ ctx.buffer_delay = 0) =>
        /\ (call.nv_status = NV_ENC_SUCCESS
                /\ call.failed \in {"none", "unlock_failed"})
               => /\ got_packet = 1 /\ ret = 0 /\ aborted = "none"
                  /\ call.retrieved # NULL
                  /\ ctx.output_surface_ready_queue.count = call.gate_ready - 1
                  /\ ctx.output_surface_queue.count = 0
        /\ call.nv_status = NV_ENC_ERR_GENERIC
               => ret = AVERROR_EXTERNAL /\ got_packet = NotWritten
        /\ (call.nv_status = NV_ENC_SUCCESS
                /\ call.failed \notin {"none", "unlock_failed"})
               => ret # 0 /\ got_packet = NotWritten

\* the device answers SUCCESS after two NEED_MORE_INPUT: three surfaces are
\* ready, one packet comes out
C13_Witness ==
    /\ call.frame /\ ctx.buffer_delay = 0
    /\ call.nv_status = NV_ENC_SUCCESS
    /\ got_packet = 1
    /\ call.gate_ready = 3
    /\ ctx.output_surface_ready_queue.count = 2

\* the frame-carrying call on which a device that answers NEED_MORE_INPUT k
\* times and SUCCESS from then on lets the first packet out under a delay d
FirstPacketCall(k, d) == IF d > k + 1 THEN d ELSE k + 1

\* the state after a frame-carrying call of a run in which the device has
\* answered NEED_MORE_INPUT answers.lead times, then SUCCESS: no packet
\* before the call FirstPacketCall, one packet on it and on every call after
\* it, each with a larger dts than the packet before
SteadyRunEmits ==
    LET j == FirstPacketCall(answers.lead, ctx.buffer_delay)
    IN  IF frames < j
        THEN /\ npackets = 0 /\ got_packet = 0 /\ answers.first = 0
             /\ call.nv_status = NV_ENC_ERR_NEED_MORE_INPUT => got_packet = 0
        ELSE /\ answers.first = j
             /\ got_packet = 1
             /\ npackets = frames - j + 1
             /\ npackets > 1 => pkt.dts > call.prev_dts

NoValue == IF qcall.op = "timestamp_dequeue" THEN AV_NOPTS_VALUE ELSE NULL

(***************************************************************************)
(* C15, as stated: a dequeue from a queue that holds no elements returns   *)
(* the no-value result (NULL, AV_NOPTS_VALUE for the timestamp queue) and  *)
(* leaves count at 0, whatever the history of the queue.                   *)
(***************************************************************************)
C15_EmptyDequeueReturnsNoValue ==
    (qcall.op \in {"dequeue", "timestamp_dequeue"} /\ qcall.before_count = 0)
        => /\ ~qcall.assert
           /\ qcall.val = NoValue
           /\ queue.count = 0

(***************************************************************************)
(* C15, amended: the same for a queue that has been initialised by a       *)
(* successful enqueue (size # 0), whatever happened since. On a queue      *)
(* whose size is 0 (never enqueued, or the first allocation failed) the    *)
(* dequeue fails av_assert0(queue->size); count stays 0 there too.         *)
(***************************************************************************)
C15_EmptyDequeueOnInitialisedQueue ==
    (qcall.op \in {"dequeue", "timestamp_dequeue"} /\ qcall.before_count = 0)
        => /\ queue.count = 0
           /\ queue.size # 0 => ~qcall.assert /\ qcall.val = NoValue
           /\ queue.size = 0 => qcall.assert

\* a timestamp dequeue on a queue that has grown with a wrapped read
\* position and has been emptied since
C15_Witness ==
    /\ qcall.op = "timestamp_dequeue"
    /\ qcall.before_count = 0
    /\ qcall.wrapGrown
    /\ queue.size = 2 * QUEUE_INITIAL_SIZE
    /\ qcall.val = AV_NOPTS_VALUE
    /\ queue.count = 0

(***************************************************************************)
(* C16, as stated: when an accelerator call of nvenc_encode_frame fails    *)
(* (nvEncMapInputResource, nvEncUnmapInputResource, nvEncEncodePicture     *)
(* with a result other than SUCCESS and NEED_MORE_INPUT,                   *)
(* nvEncLockBitstream), the call returns a non-zero error code and         *)
(* produces no packet.                                                     *)
(***************************************************************************)
C16_ApiFailureReturnsError ==
    call.failed \in {"map_failed", "unmap_failed", "encode_failed", "lock_failed"}
        => ret # 0 /\ got_packet # 1


(***************************************************************************)
(* C17: whenever a step of nvenc_encode_init fails, init returns a         *)
(* non-zero error code and every resource acquired up to the failure (the  *)
(* device context, the encoder session, every device-memory allocation,    *)
(* every registered input resource, every bitstream buffer) has been       *)
(* released.                                                               *)
(***************************************************************************)
InitResourceKinds ==
    {"cu_context", "nvencoder", "transferSurf", "dptr", "hRes", "bitstream"}

C17_FailedInitReleasesEverything ==
    open.state = "failed" =>
        /\ open.res # 0
        /\ \A r \in open.held : r[1] \notin InitResourceKinds

(***************************************************************************)
(* C18: an unknown preset, profile, level or tier string, or an            *)
(* unsupported pixel format, makes nvenc_encode_init return the            *)
(* invalid-argument error, and the encoder handle is destroyed and         *)
(* cleared.                                                                *)
(***************************************************************************)
UnknownLevel(opts) ==
    /\ opts.level # NoString
    /\ opts.level \notin IF opts.codec = AV_CODEC_ID_H264
                         THEN nvenc_h264_level_pairs ELSE nvenc_hevc_level_pairs

UnsupportedPixFmt(opts) ==
    opts.pix_fmt \notin {AV_PIX_FMT_YUV420P, AV_PIX_FMT_NV12}

\* the handle is destroyed and cleared, and init returned EINVAL
RejectedAtOpen ==
    /\ open.state = "failed"
    /\ open.res = AVERROR_EINVAL
    /\ open.nvencoder = NULL
    /\ Resource("nvencoder") \notin open.held

\* (read with the proviso that no device call or allocation of this call
\* has failed)
C18_BadConfigurationRejected ==
    ( /\ open.state # "unopened"
      /\ open.failed \notin {f.step : f \in InitFailures} \ {"none"}
      /\ \/ open.opts.preset \notin KnownPresets
         \/ open.opts.profile \notin KnownH264Profiles \cup {NoString}
         \/ UnknownLevel(open.opts)
         \/ open.opts.tier \notin KnownTiers \cup {NoString}
         \/ UnsupportedPixFmt(open.opts) )
    => RejectedAtOpen

\* C18 as the code has it: the profile string is read only for H.264 and
\* the tier string only for HEVC.
C18_CheckedBadConfigurationRejected ==
    ( /\ open.state # "unopened"
      /\ open.failed \notin {f.step : f \in InitFailures} \ {"none"}
      /\ \/ open.opts.preset \notin KnownPresets
         \/ /\ open.opts.codec = AV_CODEC_ID_H264
            /\ open.opts.profile \notin KnownH264Profiles \cup {NoString}
         \/ UnknownLevel(open.opts)
         \/ /\ open.opts.codec = AV_CODEC_ID_H265
            /\ open.opts.tier \notin KnownTiers \cup {NoString}
         \/ UnsupportedPixFmt(open.opts) )
    => RejectedAtOpen

\* an HEVC open with a known preset and level, an unknown tier: rejected
C18_Witness ==
    /\ open.failed = "tier"
    /\ open.opts.preset \in KnownPresets
    /\ ~UnknownLevel(open.opts)
    /\ RejectedAtOpen


(***************************************************************************)
(* C19: when data_queue_enqueue fails with out-of-memory, on the first     *)
(* allocation or on the allocation of the doubled buffer, it returns an    *)
(* error and the queue's size, count, position and stored elements are     *)
(* exactly as before the call.                                             *)
(***************************************************************************)
C19_FailedEnqueueLeavesQueue ==
    [][(qcall'.op = "enqueue" /\ qcall'.res # 0) =>
           /\ qcall'.res = AVERROR_ENOMEM
           /\ queue' = queue]_vars

\* a failed growth of a full queue whose write position has wrapped
C19_Witness ==
    /\ qcall.op = "enqueue"
    /\ qcall.res = AVERROR_ENOMEM
    /\ queue.size = QUEUE_INITIAL_SIZE
    /\ queue.count = queue.size
    /\ queue.pos # 0
    /\ QueueContents(queue) = fifo


(***************************************************************************)
(* C20: when a queue enqueue inside nvenc_encode_frame fails with          *)
(* out-of-memory (timestamp push, in-flight enqueue or ready enqueue), the *)
(* call returns the out-of-memory error and the pool stays consistent:     *)
(* every locked input surface belongs to a busy output surface queued in   *)
(* the in-flight or the ready queue, and the timestamp list has one entry  *)
(* per queued output surface.                                              *)
(***************************************************************************)
C20_FailedEnqueueKeepsPoolConsistent ==
    call.failed \in {"timestamp_enqueue", "inflight_enqueue", "ready_enqueue"} =>
        /\ ret = AVERROR_ENOMEM
        /\ \A s \in Surfaces :
              ctx.lockCount[s] # 0 =>
                  \E o \in Range(Outstanding) :
                      ctx.busy[o] = 1 /\ ctx.input_surface[o] = s
        /\ ctx.timestamp_list.count = Len(Outstanding)


(***************************************************************************)
(* C21: after any nvenc_encode_frame call, whether it succeeded or         *)
(* returned an error, every output surface with busy = 1 is held in the    *)
(* in-flight queue or the ready queue, and every input surface with        *)
(* lockCount > 0 is the input_surface of such a queued busy output         *)
(* surface.                                                                *)
(***************************************************************************)
C21_SurfacesAlwaysReclaimable ==
    aborted = "none" =>
        /\ \A o \in Surfaces : ctx.busy[o] = 1 => o \in Range(Outstanding)
        /\ \A s \in Surfaces :
              ctx.lockCount[s] > 0 =>
                  \E o \in Range(Outstanding) :
                      ctx.busy[o] = 1 /\ ctx.input_surface[o] = s


(***************************************************************************)
(* C22: opening with preset "lossless" or "losslesshp" selects constant-QP *)
(* rate control with QP 0 for intra, inter-P and inter-B frames and sets   *)
(* qmin and qmax to -1, whatever the cbr, two-pass, global-quality and     *)
(* qmin/qmax options are.                                                  *)
(***************************************************************************)
C22_LosslessForcesConstQpZero ==
    (open.state = "opened" /\ open.opts.preset \in {"lossless", "losslesshp"}) =>
        /\ open.cfg.rc.rateControlMode = NV_ENC_PARAMS_RC_CONSTQP
        /\ open.cfg.rc.constQP = 0
        /\ open.cfg.rc.qmin = -1
        /\ open.cfg.rc.qmax = -1

\* a lossless open with cbr, two-pass, global quality and QP bounds all set
C22_Witness ==
    /\ open.state = "opened"
    /\ open.opts.preset = "losslesshp"
    /\ open.opts.cbr = 1
    /\ open.opts.twopass = 1
    /\ open.opts.global_quality > 0
    /\ open.opts.qmin >= 0
    /\ open.opts.qmax >= 0
    /\ open.cfg.rc.constQP = 0


(***************************************************************************)
(* C26: for every combination of the options (preset lossless or not, cbr, *)
(* two-pass, global quality, qmin, qmax) nvenc_encode_init selects exactly *)
(* one of the five rate-control modes lossless constant-QP, constant-QP,   *)
(* single-pass CBR, two-pass CBR/VBR or QP-bounded VBR, with precedence    *)
(* lossless over cbr over global-quality constant-QP over QP-bounded VBR.  *)
(***************************************************************************)
\* the branch the precedence gives the options
RateControlBranch(opts) ==
    IF opts.preset \in {"lossless", "losslesshp"} THEN "lossless"
    ELSE IF opts.cbr # 0 THEN "cbr"
    ELSE IF opts.global_quality > 0 THEN "constqp"
    ELSE "vbr"

\* the first three branches select the mode the claim gives them
PrecedenceKept(o) ==
    LET b == RateControlBranch(o.opts)
        rc == o.cfg.rc
    IN  /\ b = "lossless" =>
              rc.rateControlMode = NV_ENC_PARAMS_RC_CONSTQP /\ rc.constQP = 0
        /\ b = "cbr" =>
              rc.rateControlMode = IF o.cfg.twopass = 0
                                   THEN NV_ENC_PARAMS_RC_CBR
                                   ELSE NV_ENC_PARAMS_RC_2_PASS_QUALITY
        /\ b = "constqp" =>
              /\ rc.rateControlMode = NV_ENC_PARAMS_RC_CONSTQP
              /\ rc.constQP = o.opts.global_quality

C26_OneOfFiveModes ==
    open.state = "opened" =>
        /\ PrecedenceKept(open)
        /\ RateControlBranch(open.opts) = "vbr" =>
              \/ open.cfg.rc.rateControlMode = NV_ENC_PARAMS_RC_2_PASS_VBR
              \/ /\ open.cfg.rc.rateControlMode = NV_ENC_PARAMS_RC_VBR_MINQP
                 /\ open.cfg.rc.enableMinQP = 1
                 /\ open.cfg.rc.enableMaxQP = 1

\* C26 with the sixth mode: single-pass VBR without QP bounds, selected when
\* qmin or qmax is unset
C26_OneOfSixModes ==
    open.state = "opened" =>
        /\ PrecedenceKept(open)
        /\ RateControlBranch(open.opts) = "vbr" =>
              open.cfg.rc.rateControlMode =
                  IF open.cfg.twopass # 0 THEN NV_ENC_PARAMS_RC_2_PASS_VBR
                  ELSE IF open.opts.qmin >= 0 /\ open.opts.qmax >= 0
                  THEN NV_ENC_PARAMS_RC_VBR_MINQP
                  ELSE NV_ENC_PARAMS_RC_VBR
        /\ open.cfg.rc.rateControlMode = NV_ENC_PARAMS_RC_VBR_MINQP =>
              open.cfg.rc.enableMinQP = 1 /\ open.cfg.rc.enableMaxQP = 1

\* cbr and a positive global quality together: cbr wins
C26_Witness ==
    /\ open.state = "opened"
    /\ open.opts.cbr = 1
    /\ open.opts.global_quality > 0
    /\ open.opts.qmin >= 0
    /\ open.opts.qmax >= 0
    /\ open.cfg.twopass = 0
    /\ open.cfg.rc.rateControlMode = NV_ENC_PARAMS_RC_CBR


(***************************************************************************)
(* C27: in the QP-bounded VBR branch (not lossless, not cbr, global        *)
(* quality not positive, qmin >= 0 and qmax >= 0) the initial inter-P QP   *)
(* is the integer quotient (qmax + 3*qmin) / 4, the min and max QP bounds  *)
(* are enabled with qmin and qmax, and for qmin <= qmax the initial QP     *)
(* lies in [qmin, qmax]; when qmin or qmax is unset the initial QP is 26.  *)
(***************************************************************************)
\* q is the integer quotient of n by 4, n >= 0
IsQuotientBy4(q, n) == 4 * q <= n /\ n < 4 * (q + 1)

C27_InitialQpBiasedToQmin ==
    (open.state = "opened" /\ RateControlBranch(open.opts) = "vbr") =>
        LET qmin == open.opts.qmin
            qmax == open.opts.qmax
            rc == open.cfg.rc
        IN  /\ rc.enableInitialRCQP = 1
            /\ (qmin >= 0 /\ qmax >= 0) =>
                  /\ IsQuotientBy4(rc.qpInterP, qmax + 3 * qmin)
                  /\ rc.enableMinQP = 1 /\ rc.minQP = qmin
                  /\ rc.enableMaxQP = 1 /\ rc.maxQP = qmax
                  /\ qmin <= qmax => qmin <= rc.qpInterP /\ rc.qpInterP <= qmax
            /\ (qmin < 0 \/ qmax < 0) => rc.qpInterP = 26

\* bounds 1 and 4: the quotient 7 / 4 = 1 is rounded down onto qmin
C27_Witness ==
    /\ open.state = "opened"
    /\ RateControlBranch(open.opts) = "vbr"
    /\ open.opts.qmin = 1
    /\ open.opts.qmax = 4
    /\ open.cfg.rc.qpInterP = 1
    /\ open.cfg.rc.minQP = 1
    /\ open.cfg.rc.maxQP = 4


(***************************************************************************)
(* C28: the two-pass flag is derived from the preset only when the caller  *)
(* left it unset: a two-pass value the caller set (0 or 1) is the value    *)
(* used for the rate-control selection for every preset, and an unset      *)
(* value (-1) becomes 1 for the low-latency presets and for "slow", and 0  *)
(* otherwise.                                                              *)
(***************************************************************************)
\* the rate-control selection has used the two-pass value tp
SelectedWithTwopass(o, tp) ==
    /\ o.cfg.twopass = tp
    /\ RateControlBranch(o.opts) = "cbr" =>
          o.cfg.rc.rateControlMode = IF tp = 0 THEN NV_ENC_PARAMS_RC_CBR
                                     ELSE NV_ENC_PARAMS_RC_2_PASS_QUALITY
    /\ RateControlBranch(o.opts) = "vbr" =>
          (o.cfg.rc.rateControlMode = NV_ENC_PARAMS_RC_2_PASS_VBR <=> tp # 0)

C28_CallerTwopassKept ==
    open.state = "opened" =>
        SelectedWithTwopass(open,
            IF open.opts.twopass >= 0 THEN open.opts.twopass
            ELSE IF open.opts.preset \in {"ll", "llhp", "llhq", "slow"} THEN 1
            ELSE 0)

\* C28 as the code has it: "slow" sets two-pass and "medium" and "fast"
\* clear it, also over a value the caller has set
C28_CallerTwopassKeptButForSlowMediumFast ==
    open.state = "opened" =>
        SelectedWithTwopass(open,
            IF open.opts.preset = "slow" THEN 1
            ELSE IF open.opts.preset \in {"medium", "fast"} THEN 0
            ELSE IF open.opts.twopass >= 0 THEN open.opts.twopass
            ELSE IF open.opts.preset \in {"ll", "llhp", "llhq"} THEN 1
            ELSE 0)

\* preset slow over a caller's two-pass = 0, with cbr: two-pass quality CBR
C28_Witness ==
    /\ open.state = "opened"
    /\ open.opts.preset = "slow"
    /\ open.opts.twopass = 0
    /\ open.opts.cbr = 1
    /\ open.cfg.rc.rateControlMode = NV_ENC_PARAMS_RC_2_PASS_QUALITY


(***************************************************************************)
(* C29: after a successful open last_dts is -2 exactly when B-frame        *)
(* reordering is active (frameIntervalP >= 2) and AV_NOPTS_VALUE           *)
(* otherwise; frameIntervalP is max_b_frames + 1 when gop_size > 0 and     *)
(* max_b_frames >= 0, and 0 with GOP length 1 when gop_size = 0; with      *)
(* reordering active the first emitted decode timestamp is at least -1.    *)
(***************************************************************************)
C29_DtsBaselineAfterOpen ==
    open.state = "opened" =>
        /\ (open.opts.gop_size > 0 /\ open.opts.max_b_frames >= 0) =>
              open.cfg.frameIntervalP = open.opts.max_b_frames + 1
        /\ open.opts.gop_size = 0 =>
              open.cfg.frameIntervalP = 0 /\ open.cfg.gopLength = 1
        /\ ctx.frameIntervalP = open.cfg.frameIntervalP
        /\ npackets = 0 =>
              /\ ctx.frameIntervalP >= 2 => ctx.last_dts = -2
              /\ ctx.frameIntervalP < 2 => ctx.last_dts = AV_NOPTS_VALUE
        /\ (ctx.frameIntervalP >= 2 /\ npackets = 1 /\ got_packet = 1) =>
              pkt.dts >= -1

\* one B-frame, and the first packet has just been emitted with dts -1
C29_Witness ==
    /\ open.state = "opened"
    /\ open.opts.gop_size > 0
    /\ open.opts.max_b_frames = 1
    /\ ctx.frameIntervalP = 2
    /\ npackets = 1
    /\ got_packet = 1
    /\ pkt.dts = -1


(***************************************************************************)
(* C30: the pool capacity is 32 when the macroblock count                  *)
(* ceil(width/16) * ceil(height/16) is at least 8160 and 48 otherwise (so  *)
(* 1920x1080 gets 32), and the same capacity is used for the input and the *)
(* output surface array.                                                   *)
(***************************************************************************)
\* the least c with 16 * c >= n
CeilBy16(n) == CHOOSE c \in 0..n : 16 * c >= n /\ 16 * (c - 1) < n

C30_PoolCapacityByMacroblocks ==
    open.state = "opened" =>
        LET mbs == CeilBy16(open.opts.width) * CeilBy16(open.opts.height)
        IN  /\ mbs >= 8160 => open.cfg.max_surface_count = 32
            /\ mbs < 8160 => open.cfg.max_surface_count = 48
            /\ (open.opts.width = 1920 /\ open.opts.height = 1080) =>
                  open.cfg.max_surface_count = 32
            /\ open.input_surfaces = open.cfg.max_surface_count
            /\ open.output_surfaces = open.cfg.max_surface_count

\* 1920x1080 is exactly 8160 macroblocks
C30_Witness ==
    /\ open.state = "opened"
    /\ open.opts.width = 1920
    /\ open.opts.height = 1080
    /\ CeilBy16(open.opts.width) * CeilBy16(open.opts.height) = 8160
    /\ open.cfg.max_surface_count = 32
    /\ open.input_surfaces = 32


(***************************************************************************)
(* C25: on nvenc_encode_close every registered input surface is            *)
(* unregistered, every device-memory allocation made at open (each input   *)
(* surface's memory and the chroma transfer surface) is freed and every    *)
(* output bitstream buffer is destroyed, before the encoder session is     *)
(* destroyed and the device context released.                              *)
(***************************************************************************)
C25_CloseFreesDeviceResources ==
    open.state = "closed" =>
        /\ \A r \in open.held :
              r[1] \notin {"hRes", "dptr", "transferSurf", "bitstream"}
        /\ Resource("nvencoder") \notin open.held
        /\ Resource("cu_context") \notin open.held


(***************************************************************************)
(* C23, as stated: after a frame-carrying call on which the device         *)
(* returned NEED_MORE_INPUT (and in which nothing failed), the surface     *)
(* just submitted is the last of the in-flight queue and busy, the ready   *)
(* queue is as the call found it, and got_packet is 0.                     *)
(***************************************************************************)
C23_NeedMoreInputYieldsNoPacket ==
    (call.frame /\ call.nv_status = NV_ENC_ERR_NEED_MORE_INPUT
        /\ call.failed = "none" /\ aborted = "none") =>
        /\ ctx.output_surface_queue.count # 0
        /\ QueueContents(ctx.output_surface_queue)[ctx.output_surface_queue.count]
               = call.i
        /\ ctx.busy[call.i] = 1
        /\ ctx.output_surface_ready_queue.count = call.gate_ready
        /\ got_packet = 0

(***************************************************************************)
(* C23, amended: after such a call the surface just submitted is the last  *)
(* of the in-flight queue and busy, unless the enqueue of line 1306 failed *)
(* (the call returns its error, the surface is not busy and in no queue).  *)
(* The ready queue gains nothing.  When the gate of line 1337 does not     *)
(* hold the ready queue is as the call found it and got_packet is 0; when  *)
(* it holds (an older surface is ready and ready + in-flight, the new      *)
(* surface counted, reaches buffer_delay) the oldest ready surface, never  *)
(* the one just submitted, leaves the ready queue and the call produces    *)
(* its packet, or returns an error when process_output_surface fails.      *)
(***************************************************************************)
C23_NeedMoreInputQueuesSurface ==
    (call.frame /\ call.nv_status = NV_ENC_ERR_NEED_MORE_INPUT
        /\ aborted = "none") =>
        /\ call.failed = "inflight_enqueue" =>
               /\ ret = AVERROR_ENOMEM /\ got_packet = NotWritten
               /\ ctx.busy[call.i] = 0
               /\ call.i \notin Range(QueueContents(ctx.output_surface_queue))
               /\ ~call.gate_reached
        /\ call.failed # "inflight_enqueue" =>
               /\ ctx.output_surface_queue.count # 0
               /\ QueueContents(ctx.output_surface_queue)
                      [ctx.output_surface_queue.count] = call.i
               /\ ctx.busy[call.i] = 1
               /\ call.i \notin Range(QueueContents(ctx.output_surface_ready_queue))
               /\ call.gate_reached
               /\ ~GateHeld =>
                      /\ ctx.output_surface_ready_queue.count = call.gate_ready
                      /\ got_packet = 0 /\ ret = 0
               /\ GateHeld =>
                      /\ ctx.output_surface_ready_queue.count = call.gate_ready - 1
                      /\ call.retrieved # NULL /\ call.retrieved # call.i
                      /\ (got_packet = 1) <=> (ret = 0)
                      /\ ret # 0 => got_packet = NotWritten

\* under a delay of 2 the device answers NEED_MORE_INPUT while an older
\* surface is ready: the call queues its surface in flight and emits the
\* packet of the older one
C23_Witness ==
    /\ call.frame /\ call.nv_status = NV_ENC_ERR_NEED_MORE_INPUT
    /\ call.failed = "none" /\ aborted = "none"
    /\ ctx.buffer_delay = 2
    /\ got_packet = 1
    /\ call.retrieved # call.i
    /\ ctx.busy[call.i] = 1
    /\ call.i \in Range(QueueContents(ctx.output_surface_queue))


\* where an output surface stands: its busy flag (lines 1311, 1334, 1345) and
\* the queue that holds it (lines 1306, 1322, 1327, 1338)
SurfState(c, o) ==
    LET inflight == o \in Range(QueueContents(c.output_surface_queue))
        ready == o \in Range(QueueContents(c.output_surface_ready_queue))
    IN  IF c.busy[o] = 0 /\ ~inflight /\ ~ready THEN "Free"
        ELSE IF c.busy[o] = 1 /\ inflight /\ ~ready THEN "Submitted"
        ELSE IF c.busy[o] = 1 /\ ~inflight /\ ready THEN "Ready"
        ELSE IF c.busy[o] = 1 /\ ~inflight /\ ~ready THEN "Lost"
        ELSE "Other"

\* One call of nvenc_encode_frame asks the device once: a surface that leaves
\* Free in a call is Submitted after it, a Submitted surface stays, becomes
\* Ready or (retrieved in the same call) Free, a Ready surface stays or
\* becomes Free.
CycleStep(s, t) ==
    \/ s = t
    \/ s = "Free" /\ t = "Submitted"
    \/ s = "Submitted" /\ t \in {"Ready", "Free"}
    \/ s = "Ready" /\ t = "Free"

(***************************************************************************)
(* C24, as stated: as long as nothing has failed, every output surface is  *)
(* Free, Submitted (busy, in the in-flight queue) or Ready (busy, in the   *)
(* ready queue), and a call moves it only along Free -> Submitted ->       *)
(* Ready -> Free.                                                          *)
(***************************************************************************)
C24_SurfacesFollowTheCycle ==
    [][(faults' = 0 /\ aborted' = "none") =>
           \A o \in Surfaces :
               /\ SurfState(ctx', o) \in {"Free", "Submitted", "Ready"}
               /\ CycleStep(SurfState(ctx, o), SurfState(ctx', o))]_vars

(***************************************************************************)
(* C24, amended: an output surface leaves Free only as the surface of the  *)
(* frame just submitted, to Submitted when the device answered             *)
(* NEED_MORE_INPUT and straight to Ready when it answered SUCCESS; it      *)
(* leaves Submitted only on a SUCCESS answer, to Ready (or to Free when    *)
(* the same call retrieves it); it leaves Ready only as the surface the    *)
(* call retrieves, to Free with a packet.  When the ready-queue enqueue or *)
(* process_output_surface fails, the surface taken from its queue is Lost: *)
(* busy, in no queue, for good (a surface submitted, retrieved and failed  *)
(* in one call goes from Free to Lost).  No surface is ever in both queues *)
(* or queued without being busy.                                           *)
(***************************************************************************)
C24_SurfaceTransitions ==
    [][aborted' = "none" =>
           \A o \in Surfaces :
               LET s == SurfState(ctx, o)
                   t == SurfState(ctx', o)
               IN  /\ t # "Other"
                   /\ (s = "Free" /\ t # s) =>
                          /\ o = call'.i
                          /\ \/ t = "Submitted"
                                   /\ call'.nv_status = NV_ENC_ERR_NEED_MORE_INPUT
                             \/ t = "Ready" /\ call'.nv_status = NV_ENC_SUCCESS
                             \/ t = "Lost" /\ call'.nv_status = NV_ENC_SUCCESS
                                   /\ o = call'.retrieved /\ call'.failed # "none"
                   /\ (s = "Submitted" /\ t # s) =>
                          /\ call'.nv_status = NV_ENC_SUCCESS
                          /\ \/ t = "Ready"
                             \/ t = "Free" /\ o = call'.retrieved /\ got_packet' = 1
                             \/ t = "Lost" /\ call'.failed # "none"
                   /\ (s = "Ready" /\ t # s) =>
                          /\ o = call'.retrieved
                          /\ \/ t = "Free" /\ got_packet' = 1
                             \/ t = "Lost" /\ call'.failed # "none"
                   /\ s = "Lost" => t = "Lost"]_vars

\* the device answers SUCCESS to a frame whose surface was Free: the surface
\* is Ready without having been in the in-flight queue, while the call
\* retrieves an older surface
C24_Witness ==
    /\ call.frame /\ call.nv_status = NV_ENC_SUCCESS
    /\ call.failed = "none" /\ aborted = "none" /\ faults = 0
    /\ SurfState(ctx, call.i) = "Ready"
    /\ got_packet = 1
    /\ call.retrieved # call.i
    /\ SurfState(ctx, call.retrieved) = "Free"


\* n = 2^k for some k
IsPowerOfTwo(n) == \E k \in 0..n : 2 ^ k = n

\* what the queue code relies on once queue->size is set (lines 236-247,
\* 250-264, 268-272)
QueueWellFormed(q) ==
    /\ IsPowerOfTwo(q.size)
    /\ q.size >= QUEUE_INITIAL_SIZE
    /\ 0 <= q.count /\ q.count <= q.size
    /\ 0 <= q.pos /\ q.pos < q.size
    /\ DOMAIN q.data = 0..(q.size - 1)

(***************************************************************************)
(* C31: an initialised queue has a capacity that is a power of two and at  *)
(* least 4 (4 after the first enqueue, doubled by a growth), 0 <= count <= *)
(* capacity and a write position below the capacity, and a dequeue returns *)
(* the element at index (pos - count) masked by capacity - 1, count being  *)
(* the count before the dequeue.                                           *)
(***************************************************************************)
C31_QueueShape ==
    /\ [](queue.size # 0 =>
            /\ QueueWellFormed(queue)
            /\ (qcall.op \in {"dequeue", "timestamp_dequeue"}
                   /\ qcall.before_count # 0) =>
                   /\ queue.count = qcall.before_count - 1
                   /\ qcall.val =
                          queue.data[BitAnd(UintWrap(queue.pos - qcall.before_count),
                                            queue.size - 1)])
    /\ [][queue'.size # queue.size =>
              \/ queue.size = 0 /\ queue'.size = QUEUE_INITIAL_SIZE
              \/ queue.size # 0 /\ queue.count = queue.size
                     /\ queue'.size = 2 * queue.size]_vars

\* a dequeue from a grown queue whose read position lies behind a wrapped
\* write position: pos - count is negative before the mask
C31_Witness ==
    /\ queue.size = 2 * QUEUE_INITIAL_SIZE
    /\ qcall.op = "dequeue"
    /\ qcall.before_count # 0
    /\ queue.pos < qcall.before_count
    /\ qcall.val # NULL


\* the output surfaces that wait for retrieval, oldest submission first: the
\* ready queue, then the in-flight queue (lines 1319-1327 append to the ready
\* queue what the in-flight queue held, then the new surface)
OutstandingByAge ==
    QueueContents(ctx.output_surface_ready_queue)
        \o QueueContents(ctx.output_surface_queue)

\* the timestamp list as a call with (frame) or without the frame pts sees it
\* once line 1294 has pushed
TimestampsAfterPush(frame, pts) ==
    IF frame THEN Append(QueueContents(ctx.timestamp_list), pts)
    ELSE QueueContents(ctx.timestamp_list)

(***************************************************************************)
(* C32: as long as the device has answered only SUCCESS or NEED_MORE_INPUT *)
(* and no allocation or retrieval step has failed, after every call the    *)
(* timestamp list holds in_flight.count + ready.count entries, the         *)
(* presentation timestamps of the outstanding frames in submission order;  *)
(* the k-th packet is that of the k-th submitted frame and the timestamp   *)
(* popped for it is that frame's pts; the timestamp list is never dequeued *)
(* while empty.                                                            *)
(***************************************************************************)
C32_TimestampListFollowsSurfaces ==
    /\ [](faults = 0 =>
            /\ aborted \in {"none", "av_assert0(inSurf)"}
            /\ ctx.timestamp_list.count
                   = ctx.output_surface_queue.count
                         + ctx.output_surface_ready_queue.count
            /\ QueueContents(ctx.timestamp_list)
                   = [k \in 1..Len(OutstandingByAge) |-> subPts[OutstandingByAge[k]]]
            /\ nAccepted = frames - (IF aborted = "none" THEN 0 ELSE 1)
            /\ call.retrieved # NULL =>
                   /\ got_packet = 1
                   /\ nRetrieved = npackets
                   /\ call.retrieved_rank = npackets)
    /\ [][(faults' = 0 /\ call'.retrieved # NULL) =>
              /\ TimestampsAfterPush(call'.frame, last_pts') # << >>
              /\ Head(TimestampsAfterPush(call'.frame, last_pts'))
                     = subPts'[call'.retrieved]
              /\ QueueContents(ctx'.timestamp_list)
                     = Tail(TimestampsAfterPush(call'.frame, last_pts'))]_vars

\* a second or later packet leaves while frames wait in both queues: the
\* timestamp list holds their timestamps
C32_Witness ==
    /\ faults = 0 /\ aborted = "none"
    /\ got_packet = 1 /\ npackets >= 2
    /\ ctx.output_surface_queue.count >= 1
    /\ ctx.output_surface_ready_queue.count >= 1
    /\ ctx.timestamp_list.count >= 2


(***************************************************************************)
(* C33: in a run without errors, after a flush call that reports no packet *)
(* the ready queue is empty and every submitted frame has been emitted     *)
(* once or still waits in the in-flight queue; the in-flight queue is      *)
(* empty when the device answered that end-of-stream submission, or an     *)
(* earlier one, with a result other than NEED_MORE_INPUT, and then the     *)
(* number of packets emitted equals the number of frames submitted.  No    *)
(* frame is emitted twice: the k-th packet is that of the k-th frame.      *)
(***************************************************************************)
C33_FlushedStreamIsComplete ==
    /\ [](faults = 0 /\ aborted = "none" =>
            /\ nAccepted = frames
            /\ nRetrieved = npackets
            /\ npackets + Len(OutstandingByAge) = frames
            /\ call.retrieved # NULL => call.retrieved_rank = npackets
            /\ (eos /\ ~call.frame /\ got_packet = 0) =>
                   /\ ctx.output_surface_ready_queue.count = 0
                   /\ call.nv_status # NV_ENC_ERR_NEED_MORE_INPUT =>
                          /\ ctx.output_surface_queue.count = 0
                          /\ npackets = frames)
    /\ [][(eos /\ faults' = 0 /\ ctx.output_surface_queue.count = 0)
              => ctx'.output_surface_queue.count = 0]_vars

\* under a delay of 2 several frames were submitted, the device held some
\* back, and the flush has drained them all
C33_Witness ==
    /\ faults = 0 /\ aborted = "none"
    /\ DrainedCall
    /\ call.nv_status = NV_ENC_SUCCESS
    /\ ctx.buffer_delay = 2
    /\ frames >= 3
    /\ npackets = frames


\* max(buffer_delay - 1, 0)
HeldBack(c) == IF c.buffer_delay >= 1 THEN c.buffer_delay - 1 ELSE 0

\* no surface is in flight and the ready queue holds at most
\* max(buffer_delay - 1, 0) surfaces
WithinDelay(c) ==
    /\ c.output_surface_queue.count = 0
    /\ c.output_surface_ready_queue.count <= HeldBack(c)

(***************************************************************************)
(* C34: buffer_delay is at most max_surface_count - 1 after open, and as   *)
(* long as the device has not answered NEED_MORE_INPUT the surfaces        *)
(* outstanding after a frame-carrying call (in_flight.count + ready.count) *)
(* are at most max(buffer_delay - 1, 0), which is below the pool capacity: *)
(* the bound holds before the first call, and a frame-carrying call that   *)
(* the device does not answer with NEED_MORE_INPUT keeps it, whether the   *)
(* call succeeds or not.                                                   *)
(***************************************************************************)
C34_OutstandingBelowDelay ==
    /\ [](/\ ctx.buffer_delay <= MaxSurfaces - 1
          /\ HeldBack(ctx) < MaxSurfaces
          /\ frames = 0 /\ ~eos => WithinDelay(ctx)
          /\ (call.frame /\ answers.steady /\ answers.lead = 0
                 /\ aborted = "none") => WithinDelay(ctx))
    /\ [][(frames' = frames + 1 /\ aborted' = "none"
              /\ call'.nv_status # NV_ENC_ERR_NEED_MORE_INPUT
              /\ WithinDelay(ctx)) => WithinDelay(ctx')]_vars

\* under a delay of 2 (the largest the pool of the model allows) the device
\* has answered SUCCESS to three or more frames: one surface is held back
C34_Witness ==
    /\ call.frame /\ answers.steady /\ answers.lead = 0
    /\ aborted = "none" /\ faults = 0
    /\ call.nv_status = NV_ENC_SUCCESS
    /\ frames >= 3
    /\ ctx.buffer_delay = MaxSurfaces - 1
    /\ got_packet = 1
    /\ ctx.output_surface_ready_queue.count = HeldBack(ctx)
    /\ HeldBack(ctx) >= 1


\* the busy output surfaces and the locked input surfaces
BusyOutputs(c) == {o \in Surfaces : c.busy[o] = 1}
LockedInputs(c) == {s \in Surfaces : c.lockCount[s] # 0}

\* the last call returned through the 'No free output surface' branch of
\* lines 1252-1256: it had found an input surface and no output surface
NoFreeOutputTaken ==
    /\ call.frame
    /\ call.inSurf # NULL
    /\ call.i = NULL
    /\ call.failed = "none"

(***************************************************************************)
(* C35: after every call each busy output surface refers to an input       *)
(* surface whose lockCount is 1, there are at most as many busy output     *)
(* surfaces as locked input surfaces, and no call returns through the 'No  *)
(* free output surface' branch: when every output surface is busy the      *)
(* search for an input surface has failed before.                          *)
(***************************************************************************)
C35_BusyOutputHoldsLockedInput ==
    /\ \A o \in BusyOutputs(ctx) :
           /\ ctx.input_surface[o] # NULL
           /\ ctx.lockCount[ctx.input_surface[o]] = 1
    /\ Cardinality(BusyOutputs(ctx)) <= Cardinality(LockedInputs(ctx))
    /\ ~NoFreeOutputTaken
    /\ BusyOutputs(ctx) = Surfaces => LockedInputs(ctx) = Surfaces

\* every output surface is busy and one more frame was submitted: the call
\* ended in av_assert0(inSurf), before the search for an output surface
C35_Witness ==
    /\ BusyOutputs(ctx) = Surfaces
    /\ call.frame
    /\ call.inSurf = NULL
    /\ aborted = "av_assert0(inSurf)"


\* the three queues of the context
ContextQueues(c) ==
    {c.output_surface_queue, c.output_surface_ready_queue, c.timestamp_list}

(***************************************************************************)
(* C36: the assertions of data_queue_dequeue on queue->size and            *)
(* queue->data never fire, whatever the calls, the device's answers and    *)
(* the failing steps: a queue that holds elements has its storage, the     *)
(* in-flight and the ready queue are dequeued only while they hold         *)
(* elements (lines 1319 and 1337), and the timestamp list has its storage  *)
(* whenever a surface is retrieved or waits to be.                         *)
(***************************************************************************)
C36_NoDequeueBeforeFirstEnqueue ==
    /\ aborted # "av_assert0(queue->size)"
    /\ \A q \in ContextQueues(ctx) :
           /\ q.count # 0 => q.size # 0
           /\ q.size # 0 => DOMAIN q.data = 0..(q.size - 1)
    /\ (ctx.output_surface_queue.count # 0
           \/ ctx.output_surface_ready_queue.count # 0)
           => ctx.timestamp_list.size # 0
    /\ call.retrieved # NULL =>
           /\ ctx.output_surface_ready_queue.size # 0
           /\ ctx.timestamp_list.size # 0
    /\ (frames = 0 /\ eos) =>
           \A q \in ContextQueues(ctx) : q.size = 0 /\ q.count = 0

\* a retrieval that fails after the bitstream lock: the error label of
\* process_output_surface dequeues the timestamp list, which has its storage
C36_Witness ==
    /\ call.failed = "lock_failed"
    /\ call.retrieved # NULL
    /\ aborted = "none"
    /\ ret = AVERROR_EXTERNAL
    /\ ctx.timestamp_list.size # 0
    /\ ctx.timestamp_list.count = 0

====
